---- MODULE Spec2Model ----
(***************************************************************************)
(* Travel-time table generators of locsat-tables.                          *)
(*                                                                         *)
(*   gen = "main"    generate_travel_time_tables.py                        *)
(*   gen = "legacy"  make-locsat-tables-iasp91.py                          *)
(*   gen = "local"   generate_local_tables.py                              *)
(*   gen = "simple"  travel-time-tables.py                                 *)
(*   gen = "tvel"    generate_travel_time_tables-with-tvel.py              *)
(*                                                                         *)
(* Units.  Python floats are held as integers:                             *)
(*   distance   tenths of a degree        (2.0 degrees = 20)               *)
(*   depth      km                                                         *)
(*   velocity   1e-5 km/s, as a reduced fraction num/den                   *)
(*   horizontal path  1e-4 km  (distance * 111.195 km = d10 * 111195)      *)
(*   oracle time      milliseconds (the "%12.3f" of a table line)          *)
(* A straight-line time sqrt(x^2 + z^2) / v is held by its operands        *)
(* x, z, v (see HypOver): two such times are equal when the operands are.  *)
(***************************************************************************)
EXTENDS Integers, Sequences, FiniteSets, TLC

VARIABLES
    gen,          \* the generator script that is running
    mode,         \* main: Config.mode
    phase,        \* the phase whose table is built
    oracle,       \* how the travel-time oracle (ttt.compute) answers
    layers,       \* the LocalVelocityModel: rows of depth, vp, vs
    zi, di,       \* the loops' positions in the depth and distance samples
    pc,           \* "start", "cells", "done", "error", "aborted"; "query"
    cell,         \* the value of the last table line written
    sel,          \* index of the oracle arrival the last cell took (0: none)
    oracleCalls,  \* oracle compute calls made for this table
    lastCalls,    \* oracle compute calls made for the last cell
    qdepth, qwave,\* get_velocity's arguments
    vres,         \* get_velocity's result
    lines,        \* the list of table lines a table function has collected
    text,         \* the table text: what the table function returns
    file,         \* the velocity-model file: its lines
    li,           \* lines of the file consumed by the parser
    phases,       \* main(): the list of phases asked for
    pi,           \* phases of the list that were processed
    written,      \* phases whose table file was written
    failed,       \* phases whose processing raised and was logged
    fs,           \* how the file system answers mkdir and open(.., 'w')
    status,       \* "running", or the exit status "0" or "1"
    err,          \* the exception that ended the run
    hdr,          \* samples and sample lines of the last table built
    config,       \* Config: the depth parameters of the command line
    grid          \* self.teleseismic_depths, once it is set up

tableVars == <<phase, zi, di, cell, sel, oracleCalls, lastCalls, qdepth,
               qwave, vres, lines, text>>

runVars == <<file, li, phases, pi, written, failed, fs, status, err, hdr>>

cfgVars == <<config, grid>>

vars == <<gen, mode, oracle, layers, pc, tableVars, runVars, cfgVars>>

(***************************************************************************)
(* Bounds of the model.                                                    *)
(***************************************************************************)
MaxArr == 2       \* arrivals in one oracle answer
MaxLayers == 3    \* rows of a velocity model
MaxLines == 3     \* lines of a velocity-model file
MaxPhases == 2    \* phases given on the command line

Min(S) == CHOOSE m \in S : \A n \in S : m <= n
Max(S) == CHOOSE m \in S : \A n \in S : m >= n

RECURSIVE Gcd(_, _)
Gcd(a, b) == IF b = 0 THEN a ELSE Gcd(b, a % b)

Abs(n) == IF n < 0 THEN -n ELSE n

\* The fraction num/den (den > 0) in lowest terms.
Frac(num, den) ==
    LET g == Gcd(Abs(num), den)
    IN  [kind |-> "v", num |-> num \div g, den |-> den \div g]

(***************************************************************************)
(* Values.                                                                 *)
(***************************************************************************)
None == [kind |-> "None"]

\* A time of ms milliseconds.
Secs(ms) == [kind |-> "s", ms |-> ms]

\* sqrt(x**2 + z**2) / v  in float arithmetic: 0.0/v is 0.0, h/0.0 is inf
\* and 0.0/0.0 is nan (numpy floats); otherwise the quotient, held by its
\* operands.
HypOver(x, z, v) ==
    IF v.num = 0
    THEN [kind |-> IF x = 0 /\ z = 0 THEN "nan" ELSE "inf"]
    ELSE IF x = 0 /\ z = 0 THEN Secs(0)
    ELSE [kind |-> "line", x |-> x, z |-> z, v |-> v]

\* A table line: f"{time:12.3f}", or f"{-1:12.3f}" when nothing was resolved.
ABSENT == Secs(-1000)

NoCell == [kind |-> "none"]

\* The lines of a table, by what they hold, and the newline character.  A
\* text is a sequence of lines and newline characters.
NL == [kind |-> "nl"]
NameLine(ph) == [kind |-> "name", phase |-> ph]
CountLine(n) == [kind |-> "count", n |-> n]
SampleLine(values) == [kind |-> "samples", values |-> values]
ZLine(z) == [kind |-> "z", z |-> z]
TimeLine(value) == [kind |-> "time", value |-> value]

\* "\n".join(ls)
RECURSIVE join(_)
join(ls) ==
    IF Len(ls) <= 1 THEN ls
    ELSE <<Head(ls), NL>> \o join(Tail(ls))

\* [samples[i:i+10] for i in range(0, len(samples), 10)], one line each
RECURSIVE chunks(_)
chunks(samples) ==
    IF samples = <<>> THEN <<>>
    ELSE IF Len(samples) <= 10 THEN <<SampleLine(samples)>>
    ELSE <<SampleLine(SubSeq(samples, 1, 10))>>
             \o chunks(SubSeq(samples, 11, Len(samples)))

(***************************************************************************)
(* Phase names.  Strings are atomic here, so the string tests of the code  *)
(* (phase[0] in ["p", "s"], phase[1:], startswith) are tables over the     *)
(* names the generators know.                                              *)
(***************************************************************************)
BasePhases == {"P", "Pg", "Pb", "Pn", "S", "Sb", "Sg", "Sn"}

TeleseismicPhases ==
    {"pP", "sP", "sS", "PP", "SS", "PcP", "ScS", "ScP", "PKP", "PKPdf",
     "PKPab", "PKPbc", "SKPdf", "pPKPdf", "pPKPab", "pPKPbc", "sPKPdf",
     "sPKPab", "sPKPbc"}

\* phase[0] in ["p", "s"]
IsPrefixed(ph) ==
    ph \in {"pP", "sP", "sS", "pPKPdf", "pPKPab", "pPKPbc", "sPKPdf",
            "sPKPab", "sPKPbc", "pPn", "pPdiff", "sPn", "sPdiff", "sS_",
            "pP_"}

\* phase[1:]
StripFirst(ph) ==
    CASE ph \in {"pP", "sP"} -> "P"
      [] ph = "sS" -> "S"
      [] ph \in {"pPKPdf", "sPKPdf"} -> "PKPdf"
      [] ph \in {"pPKPab", "sPKPab"} -> "PKPab"
      [] ph \in {"pPKPbc", "sPKPbc"} -> "PKPbc"
      [] ph \in {"pPn", "sPn"} -> "Pn"
      [] ph \in {"pPdiff", "sPdiff"} -> "Pdiff"
      [] ph = "sS_" -> "S_"
      [] ph = "pP_" -> "P_"
      [] OTHER -> ph

(***************************************************************************)
(* The oracle (seiscomp TravelTimeTable.compute): a stub that answers      *)
(* every call of one run the same way, with a list of arrivals or by       *)
(* raising.                                                                *)
(***************************************************************************)
Labels == {"Pn", "Pdiff", "PKPdf", "pP", "pPKPdf"}

Times == {17000, 42000}

ArrivalLists ==
    UNION { [1..n -> [phase : Labels, time : Times]] : n \in 0..MaxArr }

OracleBehaviours ==
    { [raises |-> FALSE, arrivals |-> a] : a \in ArrivalLists }
    \cup { [raises |-> TRUE, arrivals |-> <<>>] }

NoOracle == [raises |-> FALSE, arrivals |-> <<>>]

(***************************************************************************)
(* generate_travel_time_tables.py: TravelTimeCalculator                    *)
(***************************************************************************)
Modes == {"default", "local", "regional"}

ConfigMaxDistance == 1800    \* Config.max_distance = 180.0

\* _setup_phase_definitions: max_distance
max_distance(m) ==
    IF m = "local" THEN 50
    ELSE IF m = "regional" THEN 200
    ELSE ConfigMaxDistance

\* keys of self.distances
distances_keys(m) ==
    IF m \notin {"local", "regional"}
    THEN BasePhases \cup TeleseismicPhases
    ELSE BasePhases

\* keys of self.depths
depths_keys(m) ==
    {"P", "pP", "sP", "Pg", "Pb", "Pn", "S", "sS", "Sb", "Sg", "Sn"}
    \cup IF m \notin {"local", "regional"}
         THEN {"PP", "SS", "PcP", "ScS", "ScP", "PKP", "PKPdf", "PKPab",
               "PKPbc", "SKPdf", "pPKPdf", "pPKPab", "pPKPbc", "sPKPdf",
               "sPKPab", "sPKPbc"}
         ELSE {}

\* self.distance_limits
distance_limits(m) ==
    [l \in {"Pdiff", "PKPdf", "Sdiff", "SKSdf"} |->
        IF l \in {"Pdiff", "Sdiff"}
        THEN <<0, Min({1160, max_distance(m)})>>
        ELSE <<1180, max_distance(m)>>]

\* self.phase_combinations
phase_combinations ==
    [p \in {"P", "PKP", "pP", "sP", "PP", "S", "sS", "SS", "Pg", "Sg"} |->
        CASE p = "P"   -> {"Pg", "Pb", "Pn", "P", "Pdiff", "PKPdf"}
          [] p = "PKP" -> {"PKPab", "PKPbc", "PKPdf"}
          [] p = "pP"  -> {"pP", "pPn", "pPdiff"}
          [] p = "sP"  -> {"sP", "sPn", "sPdiff"}
          [] p = "PP"  -> {"PP", "PnPn"}
          [] p = "S"   -> {"S", "Sn", "Sg", "Sb", "Sdiff"}
          [] p = "sS"  -> {"sS", "sSg", "sSb", "sSn", "sSdiff"}
          [] p = "SS"  -> {"SS", "SnSn"}
          [] p = "Pg"  -> {"Pg", "PgPg"}
          [] p = "Sg"  -> {"Sg", "SgSg"}]

\* _setup_phase_definitions: distance_step and the end of regional_distances
distance_step(m) ==
    IF m = "local" THEN 1 ELSE IF m = "regional" THEN 2 ELSE 10

regional_end(m) ==
    IF m = "local" THEN 50 ELSE IF m = "regional" THEN 200 ELSE 45

\* self.distances[ph]: TRUE when d lies in the span of the samples, the
\* regional prefix [0, regional_end] or the arange(start, stop, step)
in_distances_span(ph, m, d) ==
    LET md == max_distance(m)
        prefix == ph \in BasePhases /\ 0 <= d /\ d <= regional_end(m)
        range == CASE ph = "P" -> <<50, md + distance_step(m)>>
                   [] ph \in {"Pg", "Sg"} -> <<0, Min({102, md})>>
                   [] ph \in {"Pb", "Sb"} -> <<0, Min({95, md})>>
                   [] ph \in {"Pn", "Sn"} -> <<0, Min({205, md})>>
                   [] ph = "S" -> <<50, Min({1160, md})>>
                   [] ph \in {"pP", "sP", "sS"} -> <<200, Min({1050, md})>>
                   [] ph \in {"PP", "SS"} -> <<300, md + distance_step(m)>>
                   [] ph \in {"PcP", "ScS", "ScP"} -> <<250, Min({610, md})>>
                   [] ph \in {"PKP", "PKPdf", "SKPdf", "pPKPdf", "sPKPdf"}
                         -> <<900, md + distance_step(m)>>
                   [] ph \in {"PKPab", "pPKPab", "sPKPab"}
                         -> <<1400, md + distance_step(m)>>
                   [] ph \in {"PKPbc", "pPKPbc", "sPKPbc"}
                         -> <<1400, Min({1610, md})>>
    IN  prefix \/ (range[1] <= d /\ d < range[2])

\* self.depths[ph]: TRUE when z lies in the span of the samples
\* (crustal_depths, teleseismic_depths with the default steps)
in_depths_span(ph, m, z) ==
    LET crustal_end == IF m = "regional" THEN 60 ELSE 35
        teleseismic_end == IF m = "local" THEN 30
                           ELSE IF m = "regional" THEN 100 ELSE 800
    IN  CASE ph \in {"Pg", "Pb", "Sg", "Sb"} -> 0 <= z /\ z <= crustal_end
          [] ph \in {"Pn", "Sn"} ->
                0 <= z /\ (z <= crustal_end \/ (z <= teleseismic_end /\ z <= 400))
          [] OTHER -> 0 <= z /\ z <= teleseismic_end

\* numpy.arange(start, stop, step), step > 0
arange(start, stop, step) ==
    [i \in 1..(IF stop > start THEN (stop - start + step - 1) \div step ELSE 0)
        |-> start + (i - 1) * step]

\* list(dict.fromkeys(s)): s without the repeats of a value, in order
RECURSIVE fromkeys(_)
fromkeys(s) ==
    IF s = <<>> THEN <<>>
    ELSE LET init == fromkeys(SubSeq(s, 1, Len(s) - 1))
             last == s[Len(s)]
         IN  IF \E i \in 1..Len(init) : init[i] = last
             THEN init ELSE Append(init, last)

\* self.regional_distances
regional_distances(m) ==
    IF m = "local" THEN arange(0, 51, 1)
    ELSE IF m = "regional" THEN arange(0, 201, 2)
    ELSE <<0, 1, 2, 3, 4, 5, 6, 8, 10, 12, 14, 16, 18, 20, 25, 30, 35, 40, 45>>

\* self.distances[ph], for ph a key of self.distances
distances(ph, m) ==
    LET md == max_distance(m)
        st == distance_step(m)
        reg == regional_distances(m)
    IN  CASE ph = "P" -> reg \o arange(50, md + st, st)
          [] ph \in {"Pg", "Sg"} -> reg \o arange(0, Min({102, md}), 2)
          [] ph \in {"Pb", "Sb"} -> reg \o arange(0, Min({95, md}), 5)
          [] ph \in {"Pn", "Sn"} -> reg \o arange(0, Min({205, md}), 5)
          [] ph = "S" -> reg \o arange(50, Min({1160, md}), st)
          [] ph \in {"pP", "sP", "sS"} -> arange(200, Min({1050, md}), st)
          [] ph \in {"PP", "SS"} -> arange(300, md + st, st)
          [] ph \in {"PcP", "ScS", "ScP"} -> arange(250, Min({610, md}), st)
          [] ph \in {"PKP", "PKPdf", "SKPdf", "pPKPdf", "sPKPdf"}
                -> arange(900, md + st, st)
          [] ph \in {"PKPab", "pPKPab", "sPKPab"} -> arange(1400, md + st, st)
          [] ph \in {"PKPbc", "pPKPbc", "sPKPbc"}
                -> arange(1400, Min({1610, md}), st)

\* Config: the defaults of the depth parameters
DefaultConfig ==
    [max_depth |-> 800, depth_step |-> 5, deep_depth_step |-> 50,
     deep_depth_start |-> 100]

\* Config.validate accepts the configuration; of the depth parameters only
\* max_depth and depth_step are tested
validate(cfg) == cfg.max_depth > 0 /\ cfg.depth_step > 0

\* _setup_phase_definitions: self.teleseismic_depths of a configuration
setup_teleseismic_depths(cfg, m) ==
    LET max_depth == IF m = "local" THEN 35
                     ELSE IF m = "regional" THEN 100 ELSE cfg.max_depth
        shallow_depths == arange(0, Min({cfg.deep_depth_start, max_depth}),
                                 cfg.depth_step)
        deep_depths == arange(cfg.deep_depth_start,
                              max_depth + cfg.deep_depth_step,
                              cfg.deep_depth_step)
    IN  fromkeys(shallow_depths \o deep_depths)

\* self.crustal_depths and self.teleseismic_depths, with Config's
\* depth_step 5, deep_depth_start 100, deep_depth_step 50, max_depth 800
crustal_depths(m) ==
    arange(0, (IF m = "regional" THEN 60 ELSE 35) + 5, 5)

teleseismic_depths(m) == setup_teleseismic_depths(DefaultConfig, m)

\* self.depths[ph], for ph a key of self.depths
depths(ph, m) ==
    CASE ph \in {"Pg", "Pb", "Sg", "Sb"} -> crustal_depths(m)
      [] ph \in {"Pn", "Sn"} ->
            crustal_depths(m)
                \o SelectSeq(teleseismic_depths(m), LAMBDA d : d <= 400)
      [] OTHER -> teleseismic_depths(m)

\* _format_number_list: a line is closed when it holds 10 numbers; what is
\* left after the loop is padded with blanks, which are not values
RECURSIVE format_number_list(_)
format_number_list(numbers) ==
    IF numbers = <<>> THEN <<>>
    ELSE IF Len(numbers) < 10 THEN <<SampleLine(numbers)>>
    ELSE <<SampleLine(SubSeq(numbers, 1, 10))>>
             \o format_number_list(SubSeq(numbers, 11, Len(numbers)))

\* create_table: the lines before the depth loop
create_table_head(ph, ds, xs) ==
    <<NameLine(ph), CountLine(Len(ds))>> \o format_number_list(ds)
        \o <<CountLine(Len(xs))>> \o format_number_list(xs)

\* compute_travel_times: the oracle's arrivals, [] when it raises
compute_travel_times(orc) ==
    IF orc.raises THEN <<>> ELSE orc.arrivals

DegKm == 111195          \* 111.195 km per degree, in 1e-4 km per 0.1 degree

\* The velocity law with a gradient in depth and distance,
\* v = 5.8 + 0.01 * depth + 0.01 * distance.
approximate_pg_time_gradient(distance, depth) ==
    [phase |-> "Pg",
     time  |-> HypOver(DegKm * distance, depth,
                       Frac(580000 + 1000 * depth + 100 * distance, 1))]

\* approximate_pg_time: v = 5.8 + 0.0006 * depth
approximate_pg_time(distance, depth) ==
    [phase |-> "Pg",
     time  |-> HypOver(DegKm * distance, depth, Frac(580000 + 60 * depth, 1))]

\* approximate_sg_time: v = 3.36 + 0.00037 * depth
approximate_sg_time(distance, depth) ==
    [phase |-> "Sg",
     time  |-> HypOver(DegKm * distance, depth, Frac(336000 + 37 * depth, 1))]

\* Arrival.from_traveltime
from_traveltime(tt) == [phase |-> tt.phase, time |-> Secs(tt.time)]

\* The limits are not looked at.
passes_limits_always(label, distance, limits) == TRUE

\* "if arr.phase in limits: if not dmin <= distance <= dmax: continue"
\* TRUE when the loop goes on to the matching of arr.
passes_limits(label, distance, limits) ==
    label \in DOMAIN limits
        => (limits[label][1] <= distance /\ distance <= limits[label][2])

\* Only the name itself matches: the combinations are not looked at.
matches_exact(label, name, combinations) == label = name

\* The matching of one arrival against the name looked up.
matches(label, name, combinations) ==
    IF name \in DOMAIN combinations
    THEN label \in combinations[name]
    ELSE label = name

\* The loop does not stop at the first hit: the last one stays.
last_match(arrivals, distance, name, limits, combinations) ==
    LET hits == { i \in 1..Len(arrivals) :
                    /\ passes_limits(arrivals[i].phase, distance, limits)
                    /\ matches(arrivals[i].phase, name, combinations) }
    IN  IF hits = {} THEN 0
        ELSE CHOOSE m \in hits : \A n \in hits : m >= n

\* "for arr in arrivals: ... return / break": the index of the first
\* arrival that passes the limits and matches, 0 when the loop runs out.
first_match(arrivals, distance, name, limits, combinations) ==
    LET hits == { i \in 1..Len(arrivals) :
                    /\ passes_limits(arrivals[i].phase, distance, limits)
                    /\ matches(arrivals[i].phase, name, combinations) }
    IN  IF hits = {} THEN 0 ELSE Min(hits)

\* _find_arrival.  arrival: the Arrival or None; idx: the oracle arrival
\* taken; calls: oracle compute calls made.
find_arrival(ph, distance, depth, m, orc) ==
    IF ph = "Pg"
    THEN [arrival |-> approximate_pg_time(distance, depth), idx |-> 0, calls |-> 0]
    ELSE IF ph = "Sg"
    THEN [arrival |-> approximate_sg_time(distance, depth), idx |-> 0, calls |-> 0]
    ELSE LET orig_phase == ph    \* the stripped name (phase[1:]) is not used
             arrivals == compute_travel_times(orc)
             i == first_match(arrivals, distance, orig_phase,
                              distance_limits(m), phase_combinations)
         IN  [arrival |-> IF i = 0 THEN None ELSE from_traveltime(arrivals[i]),
              idx |-> i, calls |-> 1]

\* The line appended without the reset of the time at depth 0, distance 0.
main_cell_unclamped(ph, distance, depth, m, orc) ==
    LET r == find_arrival(ph, distance, depth, m, orc)
    IN  [value |-> IF r.arrival # None THEN r.arrival.time ELSE ABSENT,
         idx |-> r.idx, calls |-> r.calls]

\* create_table, one pass of the distance loop: the line appended.
main_cell(ph, distance, depth, m, orc) ==
    LET r == find_arrival(ph, distance, depth, m, orc)
    IN  [value |-> IF r.arrival # None
                   THEN IF depth = 0 /\ distance = 0 THEN Secs(0)
                        ELSE r.arrival.time
                   ELSE ABSENT,
         idx |-> r.idx, calls |-> r.calls]

(***************************************************************************)
(* make-locsat-tables-iasp91.py                                            *)
(***************************************************************************)
\* keys of depths and of distances
legacy_phases == BasePhases \cup TeleseismicPhases

\* distances[ph] and depths[ph]: TRUE when d and z lie in the spans of the
\* samples
legacy_in_span(ph, d, z) ==
    LET prefix == ph \in BasePhases /\ 0 <= d /\ d <= 45
        range == CASE ph = "P" -> <<0, 1810>>
                   [] ph \in {"Pg", "Sg"} -> <<0, 102>>
                   [] ph \in {"Pb", "Sb"} -> <<0, 95>>
                   [] ph \in {"Pn", "Sn"} -> <<0, 205>>
                   [] ph = "S" -> <<0, 1160>>
                   [] ph \in {"pP", "sP", "sS"} -> <<200, 1050>>
                   [] ph \in {"PP", "SS"} -> <<300, 1810>>
                   [] ph \in {"PcP", "ScS", "ScP"} -> <<250, 610>>
                   [] ph \in {"PKP", "PKPdf", "SKPdf", "pPKPdf", "sPKPdf"}
                         -> <<900, 1810>>
                   [] ph \in {"PKPab", "pPKPab", "sPKPab"} -> <<1400, 1810>>
                   [] ph \in {"PKPbc", "pPKPbc", "sPKPbc"} -> <<1400, 1610>>
        deepest == IF ph \in {"Pg", "Pb", "Sg", "Sb"} THEN 35
                   ELSE IF ph \in {"Pn", "Sn"} THEN 400 ELSE 800
    IN  /\ prefix \/ (range[1] <= d /\ d < range[2])
        /\ 0 <= z /\ z <= deepest

\* distances[ph], for ph a key of distances
legacy_distances(ph) ==
    LET reg == <<0, 1, 2, 3, 4, 5, 6, 8, 10, 12, 14, 16, 18, 20, 25, 30, 35,
                 40, 45>>
    IN  CASE ph = "P" -> reg \o arange(0, 1810, 10)
          [] ph \in {"Pg", "Sg"} -> reg \o arange(0, 102, 2)
          [] ph \in {"Pb", "Sb"} -> reg \o arange(0, 95, 5)
          [] ph \in {"Pn", "Sn"} -> reg \o arange(0, 205, 5)
          [] ph = "S" -> reg \o arange(0, 1160, 10)
          [] ph \in {"pP", "sP", "sS"} -> arange(200, 1050, 10)
          [] ph \in {"PP", "SS"} -> arange(300, 1810, 10)
          [] ph \in {"PcP", "ScS", "ScP"} -> arange(250, 610, 10)
          [] ph \in {"PKP", "PKPdf", "SKPdf", "pPKPdf", "sPKPdf"}
                -> arange(900, 1810, 10)
          [] ph \in {"PKPab", "pPKPab", "sPKPab"} -> arange(1400, 1810, 10)
          [] ph \in {"PKPbc", "pPKPbc", "sPKPbc"} -> arange(1400, 1610, 10)

\* depths[ph], for ph a key of depths
legacy_depths(ph) ==
    LET crustal == <<0, 5, 10, 15, 20, 25, 30, 35>>
    IN  CASE ph \in {"Pg", "Pb", "Sg", "Sb"} -> crustal
          [] ph \in {"Pn", "Sn"} ->
                crustal \o <<40, 50, 75, 100, 150, 200, 250, 300, 400>>
          [] OTHER ->
                crustal \o <<40, 50, 75, 100, 150, 200, 250, 300, 350, 400,
                             450, 500, 550, 600, 650, 700, 750, 800>>

\* print_as_10_columns: a line is put out when it is 80 characters long
\* (10 numbers of 8 characters: the samples are below 100000), and what is
\* left after the loop is put out as a line, empty or not
RECURSIVE print_as_10_columns(_)
print_as_10_columns(xx) ==
    IF Len(xx) < 10 THEN <<SampleLine(xx), NL>>
    ELSE <<SampleLine(SubSeq(xx, 1, 10)), NL>>
             \o print_as_10_columns(SubSeq(xx, 11, Len(xx)))

\* create_table: output before the depth loop
legacy_table_head(ph, ds, xs) ==
    <<NameLine(ph), NL, CountLine(Len(ds)), NL>> \o print_as_10_columns(ds)
        \o <<CountLine(Len(xs)), NL>> \o print_as_10_columns(xs)

\* distanceLimits
distanceLimits ==
    [l \in {"Pdiff", "PKPdf", "Sdiff", "SKSdf"} |->
        IF l \in {"Pdiff", "Sdiff"} THEN <<0, 1160>> ELSE <<1180, 1800>>]

\* phaseCombinations: the same table as in the main generator
phaseCombinations == phase_combinations

\* create_table, lines 189-192: the name looked up at depth z
legacy_ph(ph, z) == IF z = 0 /\ IsPrefixed(ph) THEN StripFirst(ph) ELSE ph

\* create_table, lines 237-243 and 245-255: the Pg and Sg arrivals
legacy_pg_time(d, z) ==
    HypOver(DegKm * d, z, Frac(580000 + 60 * z, 1))

legacy_sg_time(d, z) ==
    HypOver(DegKm * d, z, Frac(336000 + 37 * z, 1))

\* create_table, one pass of the distance loop (the oracle has answered
\* with arrivals): the line appended.
legacy_cell(ph, d, z, arrivals) ==
    LET i == first_match(arrivals, d, legacy_ph(ph, z), distanceLimits,
                         phaseCombinations)
        arr == IF ph = "Pg" THEN [phase |-> "Pg", time |-> legacy_pg_time(d, z)]
               ELSE IF ph = "Sg" THEN [phase |-> "Sg", time |-> legacy_sg_time(d, z)]
               ELSE IF i = 0 THEN None
               ELSE [phase |-> arrivals[i].phase, time |-> Secs(arrivals[i].time)]
    IN  [value |-> IF arr # None
                   THEN IF z = 0 /\ d = 0 THEN Secs(0) ELSE arr.time
                   ELSE ABSENT,
         idx |-> IF ph \in {"Pg", "Sg"} THEN 0 ELSE i,
         calls |-> 1]

(***************************************************************************)
(* LocalVelocityModel (generate_local_tables.py and the TVEL generator).   *)
(* A model is its rows in file order: [depth, vp, vs], velocities in       *)
(* 1e-5 km/s.                                                              *)
(***************************************************************************)
\* max_depth = np.max(depths)
model_max_depth(rows) == Max({ rows[i].depth : i \in 1..Len(rows) })

\* An empty array that np.max accepts.
np_max_never_raises(rows) == FALSE

\* np.max(depths) raises ValueError on an empty array
np_max_raises(rows) == rows = <<>>

\* generate_local_tables.py, from_file: what the loop does with one line.
\* float(x) raises ValueError on a field that is not a number; nothing
\* catches it in from_file.
from_file_line(line) ==
    IF line.kind \in {"blank", "comment"} THEN "skip"
    ELSE IF line.kind \in {"text", "bad"} THEN "raise"
    ELSE IF line.kind = "row" THEN "append"
    ELSE "skip"

\* generate_travel_time_tables-with-tvel.py, from_tvel_file: what the loop
\* does with one line.  A line without four fields is passed over; a
\* ValueError is caught and logged; a row of zeros is passed over.
from_tvel_file_line(line) ==
    IF line.kind = "row"
    THEN IF line.vp = 0 /\ line.vs = 0 /\ line.density = 0
         THEN "skip" ELSE "append"
    ELSE "skip"

\* np.searchsorted(a, key) (side "left"): numpy's binary search, 0-based
RECURSIVE bsearch_left(_, _, _, _)
bsearch_left(a, key, lo, hi) ==
    IF lo < hi
    THEN LET mid == lo + ((hi - lo) \div 2)
         IN  IF a[mid + 1] < key
             THEN bsearch_left(a, key, mid + 1, hi)
             ELSE bsearch_left(a, key, lo, mid)
    ELSE lo

\* The search with side "right": the samples at most key, on a sorted array.
searchsorted_right(a, key) == Cardinality({ i \in 1..Len(a) : a[i] <= key })

searchsorted(a, key) == bsearch_left(a, key, 0, Len(a))

model_depths(rows) == [i \in 1..Len(rows) |-> rows[i].depth]

\* The layer lookup without the test against max_depth.
get_velocity_unbounded(rows, depth, wave_type) ==
    LET found == searchsorted(model_depths(rows), depth) - 1
        layer_index == IF found < 0 THEN 0 ELSE found
    IN  IF wave_type \in {"P", "p"}
        THEN Frac(rows[layer_index + 1].vp, 1)
        ELSE IF wave_type \in {"S", "s"}
        THEN Frac(rows[layer_index + 1].vs, 1)
        ELSE None

\* generate_local_tables.py: get_velocity (layer lookup)
get_velocity(rows, depth, wave_type) ==
    IF depth > model_max_depth(rows) THEN None
    ELSE LET found == searchsorted(model_depths(rows), depth) - 1
             layer_index == IF found < 0 THEN 0 ELSE found
         IN  IF wave_type \in {"P", "p"}
             THEN Frac(rows[layer_index + 1].vp, 1)
             ELSE IF wave_type \in {"S", "s"}
             THEN Frac(rows[layer_index + 1].vs, 1)
             ELSE None

\* The interpolation with the weight measured from the deeper sample.
get_velocity_tvel_reversed(rows, depth, wave_type) ==
    IF depth > model_max_depth(rows) THEN None
    ELSE LET idx == searchsorted(model_depths(rows), depth)
             isP == wave_type \in {"P", "p"}
             first == IF isP THEN rows[1].vp ELSE rows[1].vs
         IN  IF idx = 0 \/ idx = Len(rows)
             THEN IF first # 0 THEN Frac(first, 1) ELSE None
             ELSE LET d0 == rows[idx].depth
                      d1 == rows[idx + 1].depth
                      v0 == IF isP THEN rows[idx].vp ELSE rows[idx].vs
                      v1 == IF isP THEN rows[idx + 1].vp ELSE rows[idx + 1].vs
                  IN  IF d1 > d0
                      THEN Frac(v0 * (d1 - d0) + (v1 - v0) * (d1 - depth), d1 - d0)
                      ELSE None

\* generate_travel_time_tables-with-tvel.py: get_velocity (interpolation)
get_velocity_tvel(rows, depth, wave_type) ==
    IF depth > model_max_depth(rows) THEN None
    ELSE LET idx == searchsorted(model_depths(rows), depth)
             isP == wave_type \in {"P", "p"}
             first == IF isP THEN rows[1].vp ELSE rows[1].vs
             last == IF isP THEN rows[Len(rows)].vp ELSE rows[Len(rows)].vs
         IN  IF idx = 0
             THEN IF first # 0 THEN Frac(first, 1) ELSE None
             ELSE IF idx = Len(rows)
             THEN IF last # 0 THEN Frac(last, 1) ELSE None
             ELSE LET d0 == rows[idx].depth
                      d1 == rows[idx + 1].depth
                      v0 == IF isP THEN rows[idx].vp ELSE rows[idx].vs
                      v1 == IF isP THEN rows[idx + 1].vp ELSE rows[idx + 1].vs
                  IN  IF d1 = d0      \* numpy: x/0.0 is inf, 0.0/0.0 is nan
                      THEN [kind |-> IF (v1 - v0) * (depth - d0) = 0
                                     THEN "nan" ELSE "inf"]
                      ELSE IF d1 > d0
                      THEN Frac(v0 * (d1 - d0) + (v1 - v0) * (depth - d0), d1 - d0)
                      ELSE Frac(v0 * (d0 - d1) + (v1 - v0) * (d0 - depth), d0 - d1)

(***************************************************************************)
(* generate_local_tables.py: LocalTravelTimeCalculator                     *)
(***************************************************************************)
\* _get_phase_characteristics: the keys of characteristics
local_known == {"P", "S", "Pg", "Pb", "Sg", "Sb", "Pn", "Sn"}

\* _get_phase_characteristics: <<min_dist, max_dist, max_depth, velocity_type>>
local_characteristics(ph) ==
    CASE ph = "P" -> <<0, 1800, 800, "P">>
      [] ph = "S" -> <<0, 1800, 800, "S">>
      [] ph \in {"Pg", "Pb"} -> <<0, 100, 30, "P">>
      [] ph \in {"Sg", "Sb"} -> <<0, 100, 30, "S">>
      [] ph = "Pn" -> <<20, 150, 50, "P">>
      [] ph = "Sn" -> <<20, 150, 50, "S">>
      [] OTHER -> <<0, 1800, 800, "P">>

DegKmLocal == 111190     \* distance * 111.19

\* The last arrival of the answer that carries the phase's name.
local_last_named(arrivals, ph) ==
    LET hits == { i \in 1..Len(arrivals) : arrivals[i].phase = ph }
    IN  IF hits = {} THEN 0 ELSE Max(hits)

\* the reference-model branch: "for arr in arrivals: if arr.phase == phase"
local_first_named(arrivals, ph) ==
    LET hits == { i \in 1..Len(arrivals) : arrivals[i].phase = ph }
    IN  IF hits = {} THEN 0 ELSE Min(hits)

\* calculate_local_time without the test of the distance range.
calculate_local_time_any_distance(ph, depth, distance, rows, orc) ==
    LET ch == local_characteristics(ph)
        velocity_type == ch[4]
        distance_km == distance * DegKmLocal
    IN  IF depth > model_max_depth(rows)
        THEN IF orc.raises
             THEN [value |-> None, idx |-> 0, calls |-> 1]
             ELSE LET i == local_first_named(orc.arrivals, ph)
                  IN  [value |-> IF i = 0 THEN None
                                 ELSE Secs(orc.arrivals[i].time),
                       idx |-> i, calls |-> 1]
        ELSE LET velocity == get_velocity(rows, depth, velocity_type)
             IN  [value |-> IF velocity = None THEN None
                            ELSE HypOver(distance_km, depth, velocity),
                  idx |-> 0, calls |-> 0]

\* calculate_local_time.  value: the time or None.
calculate_local_time(ph, depth, distance, rows, orc) ==
    LET ch == local_characteristics(ph)
        min_dist == ch[1]
        max_dist == ch[2]
        velocity_type == ch[4]
        distance_km == distance * DegKmLocal
    IN  IF distance < min_dist \/ distance > max_dist
        THEN [value |-> None, idx |-> 0, calls |-> 0]
        ELSE IF depth > model_max_depth(rows)
        THEN IF orc.raises
             THEN [value |-> None, idx |-> 0, calls |-> 1]
             ELSE LET i == local_first_named(orc.arrivals, ph)
                  IN  [value |-> IF i = 0 THEN None
                                 ELSE Secs(orc.arrivals[i].time),
                       idx |-> i, calls |-> 1]
        ELSE LET velocity == get_velocity(rows, depth, velocity_type)
             IN  [value |-> IF velocity = None THEN None
                            ELSE HypOver(distance_km, depth, velocity),
                  idx |-> 0, calls |-> 0]

\* main: depth_samples, distance_samples
local_depth_samples(rows) == arange(0, Min({model_max_depth(rows) + 5, 800}), 5)
local_distance_samples == arange(0, 201, 2)

\* main, lines 174-187: the lines before the depth loop
local_table_head(ph, ds, xs) ==
    <<NameLine(ph), CountLine(Len(ds))>> \o chunks(ds)
        \o <<CountLine(Len(xs))>> \o chunks(xs)

\* main, lines 194-198: the line appended
local_cell(ph, depth, distance, rows, orc) ==
    LET r == calculate_local_time(ph, depth, distance, rows, orc)
    IN  [value |-> IF r.value # None THEN r.value ELSE ABSENT,
         idx |-> r.idx, calls |-> r.calls]

\* main, lines 171-172: depth_samples and distance_samples; TRUE when
\* distance and depth lie in their spans
local_in_span(depth, distance, rows) ==
    /\ 0 <= depth /\ depth < Min({model_max_depth(rows) + 5, 800})
    /\ 0 <= distance /\ distance < 201

(***************************************************************************)
(* travel-time-tables.py                                                   *)
(***************************************************************************)
is_surface_wave(ph) == ph \in {"Lg", "LQ", "LR", "Rg"}

\* startswith(('p', 's')) and not startswith(('pP', 'sP'))
is_depth_phase(ph) == ph \in {"sS", "sS_"}

\* get_phase_characteristics: <<min_dist, max_dist, max_depth, velocity_type>>
get_phase_characteristics(ph) ==
    CASE ph = "P" -> <<0, 1800, 800, "P">>
      [] ph = "S" -> <<0, 1800, 800, "S">>
      [] ph \in {"Pg", "Pb"} -> <<0, 100, 30, "Pcrust">>
      [] ph \in {"Sg", "Sb"} -> <<0, 100, 30, "Scrust">>
      [] ph = "Pn" -> <<20, 150, 50, "Pmantle">>
      [] ph = "Sn" -> <<20, 150, 50, "Smantle">>
      [] ph \in {"PKP", "PKPdf", "PKKP"} -> <<1100, 1800, 800, ph>>
      [] ph \in {"PKPab", "PKPbc"} -> <<1400, 1800, 800, ph>>
      [] ph \in {"SKS", "SKSac", "SKSdf", "SKKP", "SKP", "SKPdf"}
            -> <<600, 1800, 800, ph>>
      [] ph \in {"PP", "SS"} -> <<0, 1800, 800, ph>>
      [] ph \in {"PcP", "ScP", "ScS"} -> <<0, 1000, 800, ph>>
      [] ph = "pP_" -> <<0, 1800, 800, "pP">>
      [] ph = "sP" -> <<0, 1800, 800, "sP">>
      [] ph = "sS_" -> <<0, 1800, 800, "sS">>
      [] ph \in {"pPKPab", "pPKPbc", "sPKPab", "sPKPbc"}
            -> <<1400, 1800, 800, ph>>
      [] ph \in {"pPKPdf", "sPKPdf"} -> <<1100, 1800, 800, ph>>
      [] ph \in {"Lg", "LQ", "LR", "Rg"} -> <<0, 300, 0, ph>>
      [] ph \in {"Is", "It", "Iw"} -> <<0, 1800, 800, "I">>
      [] ph = "P1" -> <<0, 150, 50, "P1">>
      [] OTHER -> <<0, 1800, 800, "P">>

\* the surface-wave group velocities
surface_velocity(ph) ==
    CASE ph = "Lg" -> 350000
      [] ph = "LQ" -> 320000
      [] ph = "LR" -> 300000
      [] ph = "Rg" -> 280000

\* velocities.get(velocity_type, 6.0)
base_velocity(velocity_type) ==
    CASE velocity_type = "P" -> 680000
      [] velocity_type = "S" -> 390000
      [] velocity_type = "Pcrust" -> 620000
      [] velocity_type = "Scrust" -> 350000
      [] velocity_type = "Pmantle" -> 800000
      [] velocity_type = "Smantle" -> 450000
      [] velocity_type = "PKP" -> 720000
      [] velocity_type = "PKPab" -> 730000
      [] velocity_type = "PKPbc" -> 710000
      [] velocity_type = "PKPdf" -> 700000
      [] velocity_type = "SKS" -> 480000
      [] velocity_type = "PcP" -> 690000
      [] velocity_type = "ScS" -> 400000
      [] velocity_type = "I" -> 650000
      [] velocity_type = "P1" -> 640000
      [] OTHER -> 600000

\* calculate_travel_time: the time or None
calculate_travel_time(ph, depth, distance) ==
    LET ch == get_phase_characteristics(ph)
        min_dist == ch[1]
        max_dist == ch[2]
        max_depth == ch[3]
        velocity_type == ch[4]
        distance_km == distance * DegKmLocal
        velocity == IF is_depth_phase(ph)
                    THEN Frac(base_velocity(velocity_type) * 95, 100)
                    ELSE Frac(base_velocity(velocity_type), 1)
    IN  IF distance < min_dist \/ distance > max_dist \/ depth > max_depth
        THEN None
        ELSE IF is_surface_wave(ph)
        THEN IF depth > 0 THEN None
             ELSE HypOver(distance_km, 0, Frac(surface_velocity(ph), 1))
        ELSE HypOver(distance_km, depth, velocity)

\* get_depth_samples and get_distance_samples: TRUE when depth and
\* distance lie in the spans of the samples
simple_in_span(ph, depth, distance) ==
    LET ch == get_phase_characteristics(ph)
        deepest == IF is_surface_wave(ph) THEN 0
                   ELSE IF ph \in {"Pg", "Sg", "Pb", "Sb"} THEN 20
                   ELSE IF ph \in {"Pn", "Sn", "P1"} THEN 50
                   ELSE IF ph \in {"PKP", "PKPab", "PKPbc", "PKPdf", "SKS",
                                   "SKSac", "SKSdf", "pPKPab", "pPKPbc",
                                   "pPKPdf", "sPKPab", "sPKPbc", "sPKPdf"}
                   THEN 200 ELSE 800
        range == IF is_surface_wave(ph) THEN <<0, 301>>
                 ELSE IF ph \in {"Pg", "Sg", "Pb", "Sb"} THEN <<0, 101>>
                 ELSE IF ph \in {"Pn", "Sn", "P1"} THEN <<0, 151>>
                 ELSE <<ch[1], ch[2] + 1>>
    IN  /\ 0 <= depth /\ depth <= deepest
        /\ range[1] <= distance /\ distance < range[2]

\* startswith(('PKP', 'SKS', 'pPKP', 'sPKP'))
is_core_phase(ph) ==
    ph \in {"PKP", "PKPab", "PKPbc", "PKPdf", "SKS", "SKSac", "SKSdf", "pPKPab",
            "pPKPbc", "pPKPdf", "sPKPab", "sPKPbc", "sPKPdf"}

get_depth_samples(ph) ==
    IF is_surface_wave(ph) THEN <<0>>
    ELSE IF ph \in {"Pg", "Sg", "Pb", "Sb"} THEN <<0, 5, 10, 15, 20>>
    ELSE IF ph \in {"Pn", "Sn", "P1"} THEN <<0, 5, 15, 30, 40, 50>>
    ELSE IF is_core_phase(ph)
    THEN <<0, 5, 15, 30, 40, 50, 75, 100, 150, 200>>
    ELSE <<0, 5, 15, 30, 40, 50, 75, 100, 150, 200, 300, 400, 500, 600, 800>>

get_distance_samples(ph) ==
    LET c == get_phase_characteristics(ph)
    IN  IF is_surface_wave(ph) THEN arange(0, 301, 5)
        ELSE IF ph \in {"Pg", "Sg", "Pb", "Sb"} THEN arange(0, 101, 2)
        ELSE IF ph \in {"Pn", "Sn", "P1"} THEN arange(0, 151, 5)
        ELSE arange(c[1], c[2] + 1, 10)

\* generate_travel_time_table: the lines before the depth loop; the depth
\* samples are one line, the distance samples are put in chunks of 10
simple_table_head(ph, ds, xs) ==
    <<NameLine(ph), CountLine(Len(ds)), SampleLine(ds), CountLine(Len(xs))>>
        \o chunks(xs)

\* generate_travel_time_table, lines 158-163: the line appended
simple_cell(ph, depth, distance) ==
    LET travel_time == calculate_travel_time(ph, depth, distance)
    IN  IF travel_time = None THEN ABSENT ELSE travel_time

(***************************************************************************)
(* generate_travel_time_tables-with-tvel.py: TravelTimeCalculator          *)
(***************************************************************************)
\* phase.upper(): its first letter
UpperFirst(ph) ==
    CASE ph \in {"P", "Pg", "Pb", "Pn", "PP", "PcP", "PKP", "PKPdf", "PKPab",
                 "PKPbc", "PKKP", "P1", "pP", "pP_", "pPKPdf", "pPKPab",
                 "pPKPbc", "pPn", "pPdiff"} -> "P"
      [] ph \in {"S", "Sg", "Sb", "Sn", "SS", "ScS", "ScP", "SKS", "SKSac",
                 "SKSdf", "SKKP", "SKP", "SKPdf", "sP", "sS", "sS_", "sPKPdf",
                 "sPKPab", "sPKPbc", "sPn", "sPdiff"} -> "S"
      [] OTHER -> "other"

\* calculate_time: the time or None
calculate_time(ph, depth, distance, rows) ==
    IF depth > model_max_depth(rows) THEN None
    ELSE LET distance_km == distance * DegKm
             first == UpperFirst(ph)
             velocity == IF first = "P" THEN get_velocity_tvel(rows, depth, "P")
                         ELSE get_velocity_tvel(rows, depth, "S")
         IN  IF first \notin {"P", "S"} THEN None
             ELSE IF velocity = None THEN None
             ELSE IF velocity.kind = "nan" THEN velocity
             ELSE IF velocity.kind = "inf" THEN Secs(0)    \* h / inf
             ELSE HypOver(distance_km, depth, velocity)

\* main: the default of --depth-samples
tvel_depth_samples ==
    <<0, 5, 15, 30, 40, 50, 75, 100, 150, 200, 300, 400, 500, 600, 800>>

\* create_travel_time_table: distances, for the --distance-range
\* (start, end, step); the default is (0, 180, 1)
tvel_distances(start, end, step) ==
    [i \in 1..((end - start) \div step + 1) |-> (i - 1) * step]

\* create_travel_time_table: the lines before the depth loop
tvel_table_head(ph, ds, xs) ==
    <<NameLine(ph), CountLine(Len(ds))>> \o chunks(ds)
        \o <<CountLine(Len(xs))>> \o chunks(xs)

\* create_travel_time_table, lines 184-188: the line appended
tvel_cell(ph, depth, distance, rows) ==
    LET time == calculate_time(ph, depth, distance, rows)
    IN  IF time # None THEN time ELSE ABSENT

(***************************************************************************)
(* Inputs of a run.                                                        *)
(***************************************************************************)
\* The depth and distance samples the table loops run over (depths[phase],
\* distances[phase]; depth_samples, distance_samples).
DepthGrid == <<0, 10, 35, 60>>
DistanceGrid == <<0, 20, 100, 110, 1000, 1170, 1180>>

\* The phase names asked for.
PhaseSamples == {"P", "Pg", "Sg", "Pn", "PKP", "PKPdf", "pP", "pPKPdf", "Lg"}
LocalPhases == {"P", "S", "Pg", "Pb", "Pn", "Sg", "Sb", "Sn", "Lg"}
SimplePhases ==
    {"Is", "It", "Iw", "Lg", "LQ", "LR", "P", "P1", "Pb", "PcP", "Pg", "PKKP",
     "PKP", "PKPab", "PKPbc", "PKPdf", "Pn", "pP_", "PP", "pPKPab", "pPKPbc",
     "pPKPdf", "Rg", "S", "Sb", "ScP", "ScS", "Sg", "SKKP", "SKP", "SKPdf",
     "SKS", "SKSac", "SKSdf", "Sn", "sP", "sPKPab", "sPKPbc", "sPKPdf", "sS_",
     "SS"}
TvelPhases == {"P", "S", "Pg", "Sg", "pP", "Lg"}

Row(d, p, s) == [depth |-> d, vp |-> p, vs |-> s]

\* Velocity-model files of the table runs.
LocalModels ==
    { <<Row(0, 580000, 336000), Row(35, 650000, 390000)>>,
      <<Row(0, 580000, 336000), Row(20, 650000, 390000), Row(100, 800000, 450000)>> }

\* Velocity-model files of the get_velocity runs: rows in any order.
SampleRows ==
    { Row(d, v[1], v[2]) :
        d \in {0, 20, 35},
        v \in {<<580000, 336000>>, <<650000, 390000>>, <<0, 0>>} }

VelocityModels ==
    UNION { [1..n -> SampleRows] : n \in 1..MaxLayers }

QueryDepths == {0, 10, 20, 30, 35, 36, 50}

\* A line of a velocity-model file.  kind: "blank"; "comment" ('#' first);
\* "text" (words, as a header line); "short" (three numbers); "bad" (four
\* fields, one not a number); "row" (four numbers: depth vp vs density).
Line(k, d, p, s, rho) ==
    [kind |-> k, depth |-> d, vp |-> p, vs |-> s, density |-> rho]

LineSamples ==
    { Line(k, 0, 0, 0, 0) : k \in {"blank", "comment", "text", "short", "bad"} }
    \cup { Line("row", 0, 580000, 336000, 270000),
           Line("row", 35, 650000, 390000, 290000),
           Line("row", 20, 0, 0, 290000),
           Line("row", 20, 0, 0, 0) }

VelocityFiles == UNION { [1..n -> LineSamples] : n \in 0..MaxLines }

\* The file system: mkdir fails or not; the phases whose table file cannot
\* be opened for writing.
FsOk == [mkdir_fails |-> FALSE, nowrite |-> {}]

FsBehaviours ==
    { [mkdir_fails |-> TRUE, nowrite |-> {}] }
    \cup { [mkdir_fails |-> FALSE, nowrite |-> w] : w \in {{}, {"P"}, {"Pg"}} }

\* The oracle of a run: it answers, or it raises.
RunOracles == { NoOracle, [raises |-> TRUE, arrivals |-> <<>>] }

\* Phase lists given on the command line.
RunPhaseSamples == {"P", "Pg", "Pn", "pP", "Lg"}

RunPhaseLists == UNION { [1..n -> RunPhaseSamples] : n \in 1..MaxPhases }

NoHeader == [depths |-> <<>>, distances |-> <<>>, phase |-> "",
             depth_lines |-> <<>>, distance_lines |-> <<>>]

(***************************************************************************)
(* The table runs.                                                         *)
(***************************************************************************)
InitTable ==
    /\ zi = 0 /\ di = 0
    /\ cell = NoCell /\ sel = 0 /\ oracleCalls = 0 /\ lastCalls = 0
    /\ qdepth = 0 /\ qwave = "P" /\ vres = None
    /\ lines = <<>> /\ text = <<>>
    /\ config = DefaultConfig /\ grid = <<>>

\* No file is read and no phase list is run through.
InitNoRun ==
    /\ file = <<>> /\ li = 0 /\ phases = <<>> /\ pi = 0
    /\ written = {} /\ failed = {} /\ fs = FsOk
    /\ status = "running" /\ err = "" /\ hdr = NoHeader

InitCommon == InitTable /\ InitNoRun

InitMain ==
    /\ gen = "main" /\ mode \in Modes /\ phase \in PhaseSamples
    /\ oracle \in OracleBehaviours /\ layers = <<>> /\ pc = "start"

InitLegacy ==
    /\ gen = "legacy" /\ mode = "default" /\ phase \in PhaseSamples
    /\ oracle \in OracleBehaviours /\ layers = <<>> /\ pc = "start"

InitLocal ==
    /\ gen = "local" /\ mode = "default" /\ phase \in LocalPhases
    /\ oracle \in OracleBehaviours /\ layers \in LocalModels /\ pc = "start"

InitSimple ==
    /\ gen = "simple" /\ mode = "default" /\ phase \in SimplePhases
    /\ oracle = NoOracle /\ layers = <<>> /\ pc = "start"

InitTvel ==
    /\ gen = "tvel" /\ mode = "default" /\ phase \in TvelPhases
    /\ oracle = NoOracle /\ layers \in LocalModels /\ pc = "start"

Init ==
    /\ InitCommon
    /\ InitMain \/ InitLegacy \/ InitLocal \/ InitSimple \/ InitTvel

\* The cell the loops come to next.
NextZi == IF zi = 0 THEN 1 ELSE IF di = Len(DistanceGrid) THEN zi + 1 ELSE zi
NextDi == IF zi = 0 \/ di = Len(DistanceGrid) THEN 1 ELSE di + 1
IsLast(z, d) == z = Len(DepthGrid) /\ d = Len(DistanceGrid)

\* The cell the last line was written for.
depth == DepthGrid[zi]
distance == DistanceGrid[di]

Written(r) ==
    /\ zi' = NextZi /\ di' = NextDi
    /\ cell' = r.value /\ sel' = r.idx
    /\ oracleCalls' = oracleCalls + r.calls /\ lastCalls' = r.calls
    /\ pc' = IF IsLast(NextZi, NextDi) THEN "done" ELSE "cells"
    /\ UNCHANGED <<gen, mode, phase, oracle, layers, qdepth, qwave, vres>>
    /\ UNCHANGED <<runVars, cfgVars>>

\* lines.append(..) for each of new; the loops' last pass is followed by
\* "\n".join(lines)
Appended(new) ==
    /\ lines' = lines \o new
    /\ text' = IF IsLast(NextZi, NextDi) THEN join(lines') ELSE text

Stopped(how) ==
    /\ pc' = how
    /\ UNCHANGED <<gen, mode, phase, oracle, layers, zi, di, cell, sel,
                   oracleCalls, lastCalls, qdepth, qwave, vres, lines, text>>
    /\ UNCHANGED <<runVars, cfgVars>>

\* The lines before the depth loop are collected: the loops come next.
Headed(ls, tx) ==
    /\ pc' = "cells"
    /\ lines' = ls /\ text' = tx
    /\ UNCHANGED <<gen, mode, phase, oracle, layers, zi, di, cell, sel,
                   oracleCalls, lastCalls, qdepth, qwave, vres>>
    /\ UNCHANGED <<runVars, cfgVars>>

\* The "# z = .." line that opens the block of a depth, before the first
\* pass of its distance loop.
Opening == IF NextDi = 1 THEN <<ZLine(DepthGrid[NextZi])>> ELSE <<>>

\* generate_travel_time_tables.py, create_table: "raise ValueError"
MainUnknownPhase ==
    /\ gen = "main" /\ pc = "start"
    /\ phase \notin depths_keys(mode) \/ phase \notin distances_keys(mode)
    /\ Stopped("error")

\* create_table: the header lines
MainHeader ==
    /\ gen = "main" /\ pc = "start"
    /\ phase \in depths_keys(mode) /\ phase \in distances_keys(mode)
    /\ Headed(create_table_head(phase, DepthGrid, DistanceGrid), <<>>)

\* create_table: one pass of the distance loop
MainCell ==
    /\ gen = "main" /\ pc = "cells"
    /\ LET r == main_cell(phase, DistanceGrid[NextDi], DepthGrid[NextZi],
                          mode, oracle)
       IN  Written(r) /\ Appended(Opening \o <<TimeLine(r.value)>>)

\* make-locsat-tables-iasp91.py, create_table: depths[phase] raises KeyError
LegacyUnknownPhase ==
    /\ gen = "legacy" /\ pc = "start"
    /\ phase \notin legacy_phases
    /\ Stopped("aborted")

LegacyHeader ==
    /\ gen = "legacy" /\ pc = "start"
    /\ phase \in legacy_phases
    /\ Headed(<<>>, legacy_table_head(phase, DepthGrid, DistanceGrid))

\* create_table: one pass of the distance loop
LegacyCell ==
    /\ gen = "legacy" /\ pc = "cells"
    /\ ~oracle.raises
    /\ LET r == legacy_cell(phase, DistanceGrid[NextDi], DepthGrid[NextZi],
                            oracle.arrivals)
       IN  /\ Written(r)
           /\ text' = text \o (IF NextDi = 1
                                THEN <<ZLine(DepthGrid[NextZi]), NL>> ELSE <<>>)
                          \o <<TimeLine(r.value), NL>>
           /\ UNCHANGED lines

\* computeTravelTimesSC raises: nothing catches it
LegacyOracleRaises ==
    /\ gen = "legacy" /\ pc = "cells"
    /\ oracle.raises
    /\ pc' = "aborted"
    /\ oracleCalls' = oracleCalls + 1 /\ lastCalls' = 1
    /\ UNCHANGED <<gen, mode, phase, oracle, layers, zi, di, cell, sel,
                   qdepth, qwave, vres, lines, text>>
    /\ UNCHANGED <<runVars, cfgVars>>

\* generate_local_tables.py, main: the lines before the depth loop
LocalHeader ==
    /\ gen = "local" /\ pc = "start"
    /\ Headed(local_table_head(phase, DepthGrid, DistanceGrid), <<>>)

\* generate_local_tables.py, main: one pass of the distance loop
LocalCell ==
    /\ gen = "local" /\ pc = "cells"
    /\ LET r == local_cell(phase, DepthGrid[NextZi], DistanceGrid[NextDi],
                           layers, oracle)
       IN  Written(r) /\ Appended(Opening \o <<TimeLine(r.value)>>)

\* travel-time-tables.py, generate_travel_time_table: the lines before the
\* depth loop
SimpleHeader ==
    /\ gen = "simple" /\ pc = "start"
    /\ Headed(simple_table_head(phase, DepthGrid, DistanceGrid), <<>>)

\* travel-time-tables.py, generate_travel_time_table: one pass of the
\* distance loop; after the last pass of a depth,
\* output.append("      -1.000")
SimpleCell ==
    /\ gen = "simple" /\ pc = "cells"
    /\ LET value == simple_cell(phase, DepthGrid[NextZi], DistanceGrid[NextDi])
       IN  /\ Written([value |-> value, idx |-> 0, calls |-> 0])
           /\ Appended(Opening \o <<TimeLine(value)>>
                          \o (IF NextDi = Len(DistanceGrid)
                              THEN <<TimeLine(ABSENT)>> ELSE <<>>))

\* generate_travel_time_tables-with-tvel.py, create_travel_time_table: one pass
\* create_travel_time_table: the lines before the depth loop
TvelTableHeader ==
    /\ gen = "tvel" /\ pc = "start"
    /\ Headed(tvel_table_head(phase, DepthGrid, DistanceGrid), <<>>)

TvelCell ==
    /\ gen = "tvel" /\ pc = "cells"
    /\ LET value == tvel_cell(phase, DepthGrid[NextZi], DistanceGrid[NextDi],
                              layers)
       IN  /\ Written([value |-> value, idx |-> 0, calls |-> 0])
           /\ Appended(Opening \o <<TimeLine(value)>>)

Next ==
    \/ MainUnknownPhase
    \/ MainHeader
    \/ MainCell
    \/ LegacyUnknownPhase
    \/ LegacyHeader
    \/ LegacyCell
    \/ LegacyOracleRaises
    \/ LocalHeader
    \/ LocalCell
    \/ SimpleHeader
    \/ SimpleCell
    \/ TvelTableHeader
    \/ TvelCell

Spec == Init /\ [][Next]_vars

(***************************************************************************)
(* The get_velocity runs: a model is built and queried.                    *)
(***************************************************************************)
InitVel ==
    /\ InitCommon
    /\ gen \in {"local", "tvel"} /\ mode = "default" /\ phase = "P"
    /\ oracle = NoOracle /\ layers \in VelocityModels /\ pc = "query"

GetVelocity ==
    /\ pc = "query"
    /\ \E d \in QueryDepths, w \in {"P", "S"} :
          /\ qdepth' = d /\ qwave' = w
          /\ vres' = IF gen = "local" THEN get_velocity(layers, d, w)
                     ELSE get_velocity_tvel(layers, d, w)
    /\ pc' = "queried"
    /\ UNCHANGED <<gen, mode, phase, oracle, layers, zi, di, cell, sel,
                   oracleCalls, lastCalls, lines, text>>
    /\ UNCHANGED <<runVars, cfgVars>>

NextVel == GetVelocity

SpecVel == InitVel /\ [][NextVel]_vars

(***************************************************************************)
(* The runs of the scripts: output directory, velocity-model file, one     *)
(* table file per phase, exit status.  A table is built as in Spec; here   *)
(* only its sample lines, over the phase's own grids, and whether building *)
(* it raises.                                                              *)
(***************************************************************************)
\* main(), default_phases
default_phases(m) ==
    IF m = "local" THEN <<"P", "Pg", "Pb", "Pn", "S", "Sg", "Sb", "Sn">>
    ELSE IF m = "regional"
    THEN <<"P", "Pg", "Pb", "Pn", "S", "Sg", "Sb", "Sn", "pP", "sP", "PP", "SS">>
    ELSE <<"P", "Pg", "Pb", "Pn", "S", "Sg", "Sb", "Sn", "PP", "SS", "pP",
           "sP", "sS", "PKP", "PKPab", "PKPbc", "PKPdf", "pPKPab", "pPKPbc",
           "pPKPdf", "sPKPab", "sPKPbc", "sPKPdf", "SKPdf", "PcP", "ScS",
           "ScP">>

\* generate_local_tables.py, main: phases
local_phases == <<"P", "S", "Pg", "Pb", "Pn", "Sg", "Sb", "Sn">>

InitRunMain ==
    /\ gen = "main" /\ mode \in Modes
    /\ phases \in RunPhaseLists \cup {default_phases(mode)}
    /\ oracle \in RunOracles /\ file = <<>>

InitRunLegacy ==
    /\ gen = "legacy" /\ mode = "default"
    /\ phases \in RunPhaseLists \cup {default_phases("default")}
    /\ oracle \in RunOracles /\ file = <<>>

InitRunLocal ==
    /\ gen = "local" /\ mode = "default"
    /\ phases = local_phases
    /\ oracle = NoOracle /\ file \in VelocityFiles

InitRunTvel ==
    /\ gen = "tvel" /\ mode = "default"
    /\ phases \in {<<"P">>, <<"Pg", "P">>, <<"P", "S", "Pg", "Sg">>}
    /\ oracle = NoOracle /\ file \in VelocityFiles

\* travel-time-tables.py, write_ak135_tables: phases
simple_phases ==
    <<"Is", "It", "Iw", "Lg", "LQ", "LR", "P", "P1", "Pb", "PcP", "Pg", "PKKP",
      "PKP", "PKPab", "PKPbc", "PKPdf", "Pn", "pP_", "PP", "pPKPab", "pPKPbc",
      "pPKPdf", "Rg", "S", "Sb", "ScP", "ScS", "Sg", "SKKP", "SKP", "SKPdf",
      "SKS", "SKSac", "SKSdf", "Sn", "sP", "sPKPab", "sPKPbc", "sPKPdf", "sS_",
      "SS">>

InitRunSimple ==
    /\ gen = "simple" /\ mode = "default"
    /\ phases = simple_phases
    /\ oracle = NoOracle /\ file = <<>>

InitRun ==
    /\ InitTable /\ phase = "P" /\ layers = <<>> /\ pc = "run"
    /\ li = 0 /\ pi = 0 /\ written = {} /\ failed = {}
    /\ status = "running" /\ err = "" /\ hdr = NoHeader
    /\ fs \in FsBehaviours
    /\ InitRunMain \/ InitRunLegacy \/ InitRunLocal \/ InitRunTvel
           \/ InitRunSimple

\* sys.exit(1), or an exception nothing catches: the run ends with status 1
Exit1(e) == pc' = "exit" /\ status' = "1" /\ err' = e

\* generate_travel_time_tables.py, main: Config, validate, mkdir; an
\* exception is caught by the outer try: sys.exit(1)
MainMkdir ==
    /\ gen = "main" /\ pc = "run"
    /\ IF fs.mkdir_fails
       THEN Exit1("mkdir")
       ELSE pc' = "phases" /\ UNCHANGED <<status, err>>
    /\ UNCHANGED <<gen, mode, oracle, layers, tableVars, cfgVars, file, li, phases, pi,
                   written, failed, fs, hdr>>

\* main: one pass of "for i, phase in enumerate(phases, 1)": create_table,
\* open, write; an exception is logged and the loop continues
MainPhase ==
    /\ gen = "main" /\ pc = "phases" /\ pi < Len(phases)
    /\ LET ph == phases[pi + 1]
       IN  IF ph \notin depths_keys(mode) \/ ph \notin distances_keys(mode)
           THEN failed' = failed \cup {ph} /\ UNCHANGED <<written, hdr>>
           ELSE /\ hdr' = [depths |-> depths(ph, mode),
                           distances |-> distances(ph, mode), phase |-> ph,
                           depth_lines |-> format_number_list(depths(ph, mode)),
                           distance_lines |->
                               format_number_list(distances(ph, mode))]
                /\ IF ph \in fs.nowrite
                   THEN failed' = failed \cup {ph} /\ UNCHANGED written
                   ELSE written' = written \cup {ph} /\ UNCHANGED failed
    /\ pi' = pi + 1
    /\ UNCHANGED <<gen, mode, oracle, layers, pc, tableVars, cfgVars, file, li, phases,
                   fs, status, err>>

\* main returns: exit status 0
MainDone ==
    /\ gen = "main" /\ pc = "phases" /\ pi = Len(phases)
    /\ pc' = "exit" /\ status' = "0"
    /\ UNCHANGED <<gen, mode, oracle, layers, tableVars, cfgVars, file, li, phases, pi,
                   written, failed, fs, err, hdr>>

\* make-locsat-tables-iasp91.py: os.makedirs("tables"); only
\* FileExistsError is caught
LegacyMkdir ==
    /\ gen = "legacy" /\ pc = "run"
    /\ IF fs.mkdir_fails
       THEN Exit1("mkdir")
       ELSE pc' = "phases" /\ UNCHANGED <<status, err>>
    /\ UNCHANGED <<gen, mode, oracle, layers, tableVars, cfgVars, file, li, phases, pi,
                   written, failed, fs, hdr>>

\* one pass of "for phase in phaseSet": create_table, open, write; nothing
\* catches an exception
LegacyPhase ==
    /\ gen = "legacy" /\ pc = "phases" /\ pi < Len(phases)
    /\ LET ph == phases[pi + 1]
       IN  IF ph \notin legacy_phases
           THEN Exit1("KeyError") /\ UNCHANGED <<pi, written, hdr>>
           ELSE /\ hdr' = [depths |-> legacy_depths(ph),
                           distances |-> legacy_distances(ph), phase |-> ph,
                           depth_lines |-> print_as_10_columns(legacy_depths(ph)),
                           distance_lines |->
                               print_as_10_columns(legacy_distances(ph))]
                /\ IF oracle.raises
                   THEN Exit1("oracle") /\ UNCHANGED <<pi, written>>
                   ELSE IF ph \in fs.nowrite
                   THEN Exit1("write") /\ UNCHANGED <<pi, written>>
                   ELSE /\ written' = written \cup {ph} /\ pi' = pi + 1
                        /\ UNCHANGED <<pc, status, err>>
    /\ UNCHANGED <<gen, mode, oracle, layers, tableVars, cfgVars, file, li, phases,
                   failed, fs>>

\* the script ends: exit status 0
LegacyDone ==
    /\ gen = "legacy" /\ pc = "phases" /\ pi = Len(phases)
    /\ pc' = "exit" /\ status' = "0"
    /\ UNCHANGED <<gen, mode, oracle, layers, tableVars, cfgVars, file, li, phases, pi,
                   written, failed, fs, err, hdr>>

\* generate_local_tables.py, main: mkdir
LocalMkdir ==
    /\ gen = "local" /\ pc = "run"
    /\ IF fs.mkdir_fails
       THEN Exit1("mkdir")
       ELSE pc' = "parse" /\ UNCHANGED <<status, err>>
    /\ UNCHANGED <<gen, mode, oracle, layers, tableVars, cfgVars, file, li, phases, pi,
                   written, failed, fs, hdr>>

\* from_file: one pass of "for line in f"
LocalParseLine ==
    /\ gen = "local" /\ pc = "parse" /\ li < Len(file)
    /\ LET line == file[li + 1]
           what == from_file_line(line)
       IN  IF what = "raise"
           THEN Exit1("ValueError") /\ UNCHANGED <<li, layers>>
           ELSE /\ li' = li + 1
                /\ layers' = IF what = "append"
                             THEN Append(layers, Row(line.depth, line.vp, line.vs))
                             ELSE layers
                /\ UNCHANGED <<pc, status, err>>
    /\ UNCHANGED <<gen, mode, oracle, tableVars, cfgVars, file, phases, pi, written,
                   failed, fs, hdr>>

\* from_file: np.max(depths) and the model object
LocalConstruct ==
    /\ gen = "local" /\ pc = "parse" /\ li = Len(file)
    /\ IF np_max_raises(layers)
       THEN Exit1("empty")
       ELSE pc' = "phases" /\ UNCHANGED <<status, err>>
    /\ UNCHANGED <<gen, mode, oracle, layers, tableVars, cfgVars, file, li, phases, pi,
                   written, failed, fs, hdr>>

\* main: one pass of "for phase in phases": the table, open, write; an
\* exception is caught by the try around main's body: sys.exit(1)
LocalPhase ==
    /\ gen = "local" /\ pc = "phases" /\ pi < Len(phases)
    /\ LET ph == phases[pi + 1]
       IN  /\ hdr' = [depths |-> local_depth_samples(layers),
                      distances |-> local_distance_samples, phase |-> ph,
                      depth_lines |-> chunks(local_depth_samples(layers)),
                      distance_lines |-> chunks(local_distance_samples)]
           /\ IF ph \in fs.nowrite
              THEN Exit1("write") /\ UNCHANGED <<pi, written>>
              ELSE /\ written' = written \cup {ph} /\ pi' = pi + 1
                   /\ UNCHANGED <<pc, status, err>>
    /\ UNCHANGED <<gen, mode, oracle, layers, tableVars, cfgVars, file, li, phases,
                   failed, fs>>

LocalDone ==
    /\ gen = "local" /\ pc = "phases" /\ pi = Len(phases)
    /\ pc' = "exit" /\ status' = "0"
    /\ UNCHANGED <<gen, mode, oracle, layers, tableVars, cfgVars, file, li, phases, pi,
                   written, failed, fs, err, hdr>>

\* generate_travel_time_tables-with-tvel.py, main: parameters, mkdir
TvelMkdir ==
    /\ gen = "tvel" /\ pc = "run"
    /\ IF fs.mkdir_fails
       THEN Exit1("mkdir")
       ELSE pc' = "header" /\ UNCHANGED <<status, err>>
    /\ UNCHANGED <<gen, mode, oracle, layers, tableVars, cfgVars, file, li, phases, pi,
                   written, failed, fs, hdr>>

\* from_tvel_file: header = f.readline(), whatever the first line holds
TvelHeader ==
    /\ gen = "tvel" /\ pc = "header"
    /\ li' = IF Len(file) > 0 THEN 1 ELSE 0
    /\ pc' = "parse"
    /\ UNCHANGED <<gen, mode, oracle, layers, tableVars, cfgVars, file, phases, pi,
                   written, failed, fs, status, err, hdr>>

\* from_tvel_file: one pass of "for line in f"
TvelParseLine ==
    /\ gen = "tvel" /\ pc = "parse" /\ li < Len(file)
    /\ LET line == file[li + 1]
       IN  layers' = IF from_tvel_file_line(line) = "append"
                     THEN Append(layers, Row(line.depth, line.vp, line.vs))
                     ELSE layers
    /\ li' = li + 1
    /\ UNCHANGED <<gen, mode, oracle, pc, tableVars, cfgVars, file, phases, pi, written,
                   failed, fs, status, err, hdr>>

\* from_tvel_file: np.max(depths) and the model object
TvelConstruct ==
    /\ gen = "tvel" /\ pc = "parse" /\ li = Len(file)
    /\ IF np_max_raises(layers)
       THEN Exit1("empty")
       ELSE pc' = "phases" /\ UNCHANGED <<status, err>>
    /\ UNCHANGED <<gen, mode, oracle, layers, tableVars, cfgVars, file, li, phases, pi,
                   written, failed, fs, hdr>>

\* main: one pass of "for phase in phases"
TvelPhase ==
    /\ gen = "tvel" /\ pc = "phases" /\ pi < Len(phases)
    /\ LET ph == phases[pi + 1]
       IN  /\ hdr' = [depths |-> tvel_depth_samples,
                      distances |-> tvel_distances(0, 1800, 10), phase |-> ph,
                      depth_lines |-> chunks(tvel_depth_samples),
                      distance_lines |-> chunks(tvel_distances(0, 1800, 10))]
           /\ IF ph \in fs.nowrite
              THEN Exit1("write") /\ UNCHANGED <<pi, written>>
              ELSE /\ written' = written \cup {ph} /\ pi' = pi + 1
                   /\ UNCHANGED <<pc, status, err>>
    /\ UNCHANGED <<gen, mode, oracle, layers, tableVars, cfgVars, file, li, phases,
                   failed, fs>>

TvelDone ==
    /\ gen = "tvel" /\ pc = "phases" /\ pi = Len(phases)
    /\ pc' = "exit" /\ status' = "0"
    /\ UNCHANGED <<gen, mode, oracle, layers, tableVars, cfgVars, file, li, phases, pi,
                   written, failed, fs, err, hdr>>

\* travel-time-tables.py, write_ak135_tables: one pass of "for phase in
\* phases": the samples, the table, open, write; nothing catches an
\* exception, and nothing makes a directory
SimplePhase ==
    /\ gen = "simple" /\ pc = "run" /\ pi < Len(phases)
    /\ LET ph == phases[pi + 1]
           ds == get_depth_samples(ph)
           xs == get_distance_samples(ph)
       IN  /\ hdr' = [depths |-> ds, distances |-> xs, phase |-> ph,
                      depth_lines |-> <<SampleLine(ds)>>,
                      distance_lines |-> chunks(xs)]
           /\ IF ph \in fs.nowrite
              THEN Exit1("write") /\ UNCHANGED <<pi, written>>
              ELSE /\ written' = written \cup {ph} /\ pi' = pi + 1
                   /\ UNCHANGED <<pc, status, err>>
    /\ UNCHANGED <<gen, mode, oracle, layers, tableVars, cfgVars, file, li, phases,
                   failed, fs>>

SimpleDone ==
    /\ gen = "simple" /\ pc = "run" /\ pi = Len(phases)
    /\ pc' = "exit" /\ status' = "0"
    /\ UNCHANGED <<gen, mode, oracle, layers, tableVars, cfgVars, file, li, phases, pi,
                   written, failed, fs, err, hdr>>

NextRun ==
    \/ MainMkdir
    \/ MainPhase
    \/ MainDone
    \/ LegacyMkdir
    \/ LegacyPhase
    \/ LegacyDone
    \/ LocalMkdir
    \/ LocalParseLine
    \/ LocalConstruct
    \/ LocalPhase
    \/ LocalDone
    \/ TvelMkdir
    \/ TvelHeader
    \/ TvelParseLine
    \/ TvelConstruct
    \/ TvelPhase
    \/ TvelDone
    \/ SimplePhase
    \/ SimpleDone

SpecRun == InitRun /\ [][NextRun]_vars

(***************************************************************************)
(* The configuration runs of generate_travel_time_tables.py: the depth     *)
(* parameters of the command line are validated and the teleseismic depth  *)
(* grid is set up.                                                         *)
(***************************************************************************)
ConfigModes == Modes \cup {"custom"}

\* --max-depth, --depth-step, --deep-depth-step, --deep-depth-start
Configs ==
    [max_depth : {0, 60, 100, 720, 800}, depth_step : {0, 5, 30},
     deep_depth_step : {50, 100}, deep_depth_start : {50, 100}]

InitCfg ==
    /\ gen = "main" /\ mode \in ConfigModes /\ phase = "P"
    /\ oracle = NoOracle /\ layers = <<>> /\ pc = "config"
    /\ zi = 0 /\ di = 0
    /\ cell = NoCell /\ sel = 0 /\ oracleCalls = 0 /\ lastCalls = 0
    /\ qdepth = 0 /\ qwave = "P" /\ vres = None
    /\ lines = <<>> /\ text = <<>>
    /\ InitNoRun
    /\ config \in Configs /\ grid = <<>>

\* main: config.validate() raises ValueError: sys.exit(1)
ValidateRaises ==
    /\ pc = "config" /\ ~validate(config)
    /\ Exit1("ValueError")
    /\ UNCHANGED <<gen, mode, oracle, layers, tableVars, cfgVars, file, li,
                   phases, pi, written, failed, fs, hdr>>

\* main: config.validate() returns; TravelTimeCalculator(config) sets the
\* depth grids up
SetupPhaseDefinitions ==
    /\ pc = "config" /\ validate(config)
    /\ pc' = "setup"
    /\ grid' = setup_teleseismic_depths(config, mode)
    /\ UNCHANGED <<gen, mode, oracle, layers, tableVars, config, runVars>>

NextCfg == ValidateRaises \/ SetupPhaseDefinitions

SpecCfg == InitCfg /\ [][NextCfg]_vars

(***************************************************************************)
(* Properties.                                                             *)
(***************************************************************************)
\* A table line has been written, for the cell (depth, distance).
CellWritten == pc \in {"cells", "done"} /\ zi > 0

\* The cell lies in the spans of the samples the running generator itself
\* gives the phase.
InGrid ==
    CASE gen = "main" -> /\ in_distances_span(phase, mode, distance)
                         /\ in_depths_span(phase, mode, depth)
      [] gen = "legacy" -> legacy_in_span(phase, distance, depth)
      [] gen = "local" -> local_in_span(depth, distance, layers)
      [] gen = "simple" -> simple_in_span(phase, depth, distance)
      [] OTHER -> TRUE

\* The distance-limits table of the running generator.
Limits == IF gen = "main" THEN distance_limits(mode) ELSE distanceLimits

\* C1: in the generators with a distance-limits table, an oracle arrival
\* whose label is in the table (Pdiff, Sdiff: up to 116 degrees; PKPdf,
\* SKSdf: from 118 degrees) is never the arrival selected when the query
\* distance lies outside the label's window, whatever the phase.
C1_LimitedLabelNeverSelectedOutsideWindow ==
    (CellWritten /\ gen \in {"main", "legacy"} /\ sel # 0) =>
        LET label == oracle.arrivals[sel].phase
        IN  /\ label \in DOMAIN Limits =>
                  Limits[label][1] <= distance /\ distance <= Limits[label][2]
            /\ label \in {"Pdiff", "Sdiff"} => distance <= 1160
            /\ label \in {"PKPdf", "SKSdf"} => distance >= 1180

\* The P table at 100 degrees: PKPdf comes first and is passed over, the
\* Pn after it is taken.
C1_Witness ==
    /\ CellWritten /\ gen = "main" /\ mode = "default" /\ phase = "P"
    /\ distance = 1000
    /\ Len(oracle.arrivals) = 2
    /\ oracle.arrivals[1].phase = "PKPdf" /\ oracle.arrivals[2].phase = "Pn"
    /\ sel = 2

\* The arrivals of the oracle's answer that are in the set of name and are
\* not excluded by a distance-limit window.
Eligible(name) ==
    { i \in 1..Len(oracle.arrivals) :
        /\ oracle.arrivals[i].phase \in phase_combinations[name]
        /\ oracle.arrivals[i].phase \in DOMAIN Limits =>
              /\ Limits[oracle.arrivals[i].phase][1] <= distance
              /\ distance <= Limits[oracle.arrivals[i].phase][2] }

FirstEligibleWins(name) ==
    (name \in DOMAIN phase_combinations /\ Eligible(name) # {}) =>
        LET i == Min(Eligible(name))
        IN  /\ sel = i
            /\ cell = IF depth = 0 /\ distance = 0 THEN Secs(0)
                      ELSE Secs(oracle.arrivals[i].time)

\* The name make-locsat-tables-iasp91.py looks up: at depth 0 a depth phase
\* without its first letter.
StrippedAtZero ==
    IF gen = "legacy" /\ depth = 0 /\ phase \in {"pP", "sP"} THEN "P"
    ELSE IF gen = "legacy" /\ depth = 0 /\ phase = "sS" THEN "S"
    ELSE phase

\* C2 (as amended): for a phase other than Pg and Sg, when the oracle's
\* answer holds an arrival that is in the combine set and not excluded by a
\* distance-limit window, the cell is the time of the first such arrival in
\* oracle order, unchanged except at depth 0, distance 0; the combine set is
\* that of the phase, and in make-locsat-tables-iasp91.py at depth 0 that of
\* the phase without its leading p or s.
C2_FirstEligibleArrivalWins ==
    (CellWritten /\ gen \in {"main", "legacy"} /\ phase \notin {"Pg", "Sg"})
        => FirstEligibleWins(StrippedAtZero)

\* Two arrivals of P's set pass; the second is the earlier one; the first
\* is taken.
C2_Witness ==
    /\ CellWritten /\ gen = "main" /\ phase = "P"
    /\ depth = 10 /\ distance = 20
    /\ oracle.arrivals = << [phase |-> "Pn", time |-> 42000],
                            [phase |-> "Pdiff", time |-> 17000] >>
    /\ sel = 1 /\ cell = Secs(42000)

\* C2 as stated: the combine set is always that of the phase itself (here
\* over the cells of the generator's own grid).
C2_Original ==
    ( /\ CellWritten /\ InGrid
      /\ gen \in {"main", "legacy"} /\ phase \notin {"Pg", "Sg"} )
        => FirstEligibleWins(phase)

\* C3: at depth 0, distance 0 the line written is 0 when an arrival was
\* resolved, whatever its time, and the sentinel -1 when none was.
C3_ZeroCellClamped ==
    (CellWritten /\ gen \in {"main", "legacy"} /\ depth = 0 /\ distance = 0)
        => cell = IF phase \in {"Pg", "Sg"} \/ sel # 0 THEN Secs(0) ELSE ABSENT

\* An oracle arrival of 42 s is taken at depth 0, distance 0; 0 is written.
C3_Witness ==
    /\ CellWritten /\ gen = "main" /\ phase = "P"
    /\ depth = 0 /\ distance = 0
    /\ sel = 1 /\ oracle.arrivals[1].time = 42000
    /\ cell = Secs(0)

\* C4: the P table over depths 0, 35 and distances 0, 10 degrees with an
\* oracle that always answers (Pn, 42.0) has 42.0 in every cell except
\* (0, 0), which has 0.0.
C4_StubTable ==
    ( /\ CellWritten /\ gen = "main" /\ phase = "P"
      /\ oracle = [raises |-> FALSE,
                   arrivals |-> << [phase |-> "Pn", time |-> 42000] >>]
      /\ depth \in {0, 35} /\ distance \in {0, 100} )
        => cell = IF depth = 0 /\ distance = 0 THEN Secs(0) ELSE Secs(42000)

\* The last of the four cells, (35, 10), is written: 42.0.
C4_Witness ==
    /\ CellWritten /\ gen = "main" /\ phase = "P"
    /\ oracle = [raises |-> FALSE,
                 arrivals |-> << [phase |-> "Pn", time |-> 42000] >>]
    /\ depth = 35 /\ distance = 100
    /\ cell = Secs(42000)

\* C5: while a Pg or Sg table is built by a generator with the analytic
\* override, no oracle compute call is made.
C5_NoOracleCallForPgSg ==
    (gen \in {"main", "legacy"} /\ phase \in {"Pg", "Sg"}) => oracleCalls = 0

\* The times of the claim: sqrt((distance*111.195)^2 + depth^2) over
\* 5.8 + 0.0006*depth and over 3.36 + 0.00037*depth.
ClaimPgTime(d, z) == HypOver(111195 * d, z, Frac(580000 + 60 * z, 1))
ClaimSgTime(d, z) == HypOver(111195 * d, z, Frac(336000 + 37 * z, 1))

ClaimTime == IF phase = "Pg" THEN ClaimPgTime(distance, depth)
             ELSE ClaimSgTime(distance, depth)

\* C6 (as amended): in generate_travel_time_tables.py and
\* make-locsat-tables-iasp91.py the Pg time is
\* sqrt((distance*111.195)^2 + depth^2) / (5.8 + 0.0006*depth) and the Sg
\* time the same over 3.36 + 0.00037*depth, at every depth and distance.
C6_AnalyticPgSgTimes ==
    (CellWritten /\ gen \in {"main", "legacy"} /\ phase \in {"Pg", "Sg"})
        => cell = ClaimTime

\* resolve(Pg, 10, 2.0): sqrt((2.0*111.195)^2 + 10^2) / (5.8 + 0.0006*10)
C6_Witness ==
    /\ CellWritten /\ gen = "main" /\ phase = "Pg"
    /\ depth = 10 /\ distance = 20
    /\ cell = [kind |-> "line", x |-> 2223900, z |-> 10,
               v |-> [kind |-> "v", num |-> 580600, den |-> 1]]

\* C6 as stated: every generator that writes a Pg or Sg table (here over
\* the cells of the generator's own grid).
C6_Original ==
    (CellWritten /\ InGrid /\ phase \in {"Pg", "Sg"} /\ cell # ABSENT)
        => cell = ClaimTime

\* The phase characteristics of the two generators that keep them.
Characteristics ==
    IF gen = "local" THEN local_characteristics(phase)
    ELSE get_phase_characteristics(phase)

OutsideCharacteristics ==
    distance < Characteristics[1] \/ distance > Characteristics[2]

\* C7 (as amended): in generate_local_tables.py and travel-time-tables.py
\* a query distance outside the phase's distance range gives ABSENT before
\* any velocity or oracle lookup (Pg, Sg, Pb, Sb beyond 10 degrees; Pn, Sn
\* below 2 or beyond 15 degrees); generate_travel_time_tables.py makes no
\* such test: Pg and Sg resolve to the analytic time at every distance.
C7_DistanceRangeChecked ==
    /\ (CellWritten /\ gen \in {"local", "simple"}) =>
          /\ OutsideCharacteristics =>
                cell = ABSENT /\ sel = 0 /\ lastCalls = 0
          /\ (phase \in {"Pg", "Sg", "Pb", "Sb"} /\ distance > 100) =>
                cell = ABSENT
          /\ (phase \in {"Pn", "Sn"} /\ (distance < 20 \/ distance > 150)) =>
                cell = ABSENT
    /\ (CellWritten /\ gen = "main" /\ phase \in {"Pg", "Sg"}) => cell # ABSENT

\* Pg at 11 degrees in the local-model generator, at a depth inside the
\* model: ABSENT.
C7_Witness ==
    /\ CellWritten /\ gen = "local" /\ phase = "Pg"
    /\ depth = 10 /\ distance = 110
    /\ cell = ABSENT /\ lastCalls = 0

\* C7 as stated: every resolver answers ABSENT outside the phase's distance
\* domain, the analytic override included.
C7_Original ==
    /\ (CellWritten /\ gen \in {"local", "simple"} /\ OutsideCharacteristics)
          => cell = ABSENT
    /\ ( /\ CellWritten /\ gen = "main" /\ phase \in {"Pg", "Sg"}
         /\ ~in_distances_span(phase, mode, distance) )
          => cell = ABSENT

\* C8: a query depth above the phase's permitted maximum depth gives ABSENT
\* (here over the cells of the generator's own grid).
C8_MaxDepthChecked ==
    ( /\ CellWritten /\ InGrid
      /\ gen \in {"local", "simple"} /\ depth > Characteristics[3] )
        => cell = ABSENT

\* C9: a query depth above every row's depth (above max_depth) gives None,
\* in the layer lookup and in the interpolation.
C9_AbsentAboveMaxDepth ==
    (pc = "queried" /\ \A i \in 1..Len(layers) : qdepth > layers[i].depth)
        => vres = None

\* The interpolating model is asked at 36 km, below its last row at 35 km.
C9_Witness ==
    /\ pc = "queried" /\ gen = "tvel"
    /\ Len(layers) = 2 /\ layers[1].depth = 0 /\ layers[2].depth = 35
    /\ qdepth = 36 /\ vres = None

StrictlyIncreasing(rows) ==
    \A i \in 1..(Len(rows) - 1) : rows[i].depth < rows[i + 1].depth

\* C10: the layer lookup answers with the velocity of the deepest row whose
\* depth is at most the query depth, and with the first row's above it.
C10_DeepestLayerAtOrAbove ==
    ( /\ pc = "queried" /\ gen = "local"
      /\ StrictlyIncreasing(layers)
      /\ qdepth <= layers[Len(layers)].depth )
        => LET above == { i \in 1..Len(layers) : layers[i].depth <= qdepth }
               k == IF above = {} THEN 1 ELSE Max(above)
           IN  vres = Frac(IF qwave = "P" THEN layers[k].vp ELSE layers[k].vs, 1)

C12_ZeroVelocityRowsSkipped ==
    gen \in {"local", "tvel"} =>
        \A i \in 1..Len(layers) : ~(layers[i].vp = 0 /\ layers[i].vs = 0)

\* The lines the parser takes as data: all of them, and in the TVEL parser
\* all but the first, which is read as the header.
DataLines ==
    IF gen = "tvel" THEN SubSeq(file, 2, Len(file)) ELSE file

Malformed(line) == line.kind \in {"text", "short", "bad"}

ZeroRow(line) == line.kind = "row" /\ line.vp = 0 /\ line.vs = 0

RECURSIVE RowsOf(_)
RowsOf(ls) ==
    IF ls = <<>> THEN <<>>
    ELSE LET l == ls[Len(ls)]
             init == RowsOf(SubSeq(ls, 1, Len(ls) - 1))
         IN  IF l.kind = "row" THEN Append(init, Row(l.depth, l.vp, l.vs))
             ELSE init

\* C13: a file with a malformed line (wrong field count, or a field that is
\* not a number) among valid rows is parsed to the end: the run is not ended
\* by the line and the model holds the valid rows in file order.
C13_MalformedLinesSkipped ==
    ( /\ gen \in {"local", "tvel"}
      /\ \E i \in 1..Len(DataLines) : Malformed(DataLines[i])
      /\ \E i \in 1..Len(DataLines) : DataLines[i].kind = "row"
      /\ \A i \in 1..Len(DataLines) : ~ZeroRow(DataLines[i]) )
        => /\ err # "ValueError"
           /\ pc = "phases" => layers = RowsOf(DataLines)

\* C14: when the parser has kept no row, model construction fails: the run
\* ends with exit status 1 and no table file is written.
C14_EmptyModelIsFatal ==
    ( /\ gen \in {"local", "tvel"}
      /\ pc \in {"phases", "exit"} /\ err \notin {"mkdir", "ValueError"}
      /\ layers = <<>> )
        => /\ pc = "exit" /\ status = "1" /\ err = "empty"
           /\ written = {}

\* A TVEL file whose only row is its first line: the line is read as the
\* header, no row is left, and the run ends with status 1.
C14_Witness ==
    /\ gen = "tvel"
    /\ file = << Line("row", 0, 580000, 336000, 270000) >>
    /\ li = 1 /\ layers = <<>>
    /\ pc = "exit" /\ status = "1" /\ err = "empty" /\ written = {}

\* C15: the layers of every model that was built are in strictly ascending
\* order of depth.
C15_LayersSortedNoDuplicates ==
    (gen \in {"local", "tvel"} /\ pc = "phases") => StrictlyIncreasing(layers)

NonDecreasing(samples) ==
    \A i \in 1..(Len(samples) - 1) : samples[i] <= samples[i + 1]

\* C16: the depth samples and the distance samples of every table built by
\* generate_travel_time_tables.py and make-locsat-tables-iasp91.py are
\* non-empty and non-decreasing.
C16_GridsNonDecreasing ==
    (gen \in {"main", "legacy"} /\ hdr # NoHeader) =>
        /\ hdr.depths # <<>> /\ NonDecreasing(hdr.depths)
        /\ hdr.distances # <<>> /\ NonDecreasing(hdr.distances)

\* The phase names the running generator's catalog holds.
Catalog ==
    CASE gen = "main" -> depths_keys(mode) \cap distances_keys(mode)
      [] gen = "legacy" -> legacy_phases
      [] gen = "local" -> local_known

\* C17: for a phase name that is not in the catalog no table line is
\* written: the request fails instead.
C17_UnknownPhaseFails ==
    (gen \in {"main", "legacy", "local"} /\ phase \notin Catalog)
        => ~CellWritten

\* C19: for a known phase an oracle that raises does not end the table: the
\* cell it was asked for is the sentinel -1 and the loops go on.
C19_OracleFailureAbsorbed ==
    (gen \in {"main", "legacy", "local"} /\ phase \in Catalog /\ oracle.raises) =>
        /\ pc # "aborted"
        /\ (CellWritten /\ lastCalls > 0) => cell = ABSENT

\* Building the table of ph raises in the running generator.
BuildFails(ph) ==
    \/ ph \notin Catalog
    \/ gen = "legacy" /\ oracle.raises

\* C18: a run that meets no file-system error goes through its whole phase
\* list: the phases whose table cannot be built get no file, every other
\* phase of the list gets its file.
C18_FailureIsolation ==
    (gen \in {"main", "legacy"} /\ pc = "exit" /\ fs = FsOk) =>
        /\ pi = Len(phases)
        /\ \A i \in 1..Len(phases) :
               (phases[i] \in written) <=> ~BuildFails(phases[i])

\* The run met a file-system error: the output directory could not be made
\* or the file of a phase whose table was built could not be written.
FsErrorHappened ==
    \/ err \in {"mkdir", "write"}
    \/ /\ gen = "main"
       /\ \E i \in 1..pi : phases[i] \in Catalog /\ phases[i] \in fs.nowrite

\* C20: a run that met a file-system error ends with a non-zero exit status.
C20_FsErrorIsFatal ==
    (pc = "exit" /\ FsErrorHappened) => status = "1"

\* The lines of a text.
LinesOf(tx) == SelectSeq(tx, LAMBDA t : t.kind # "nl")

\* The time lines collected for the table so far.
TimeLines ==
    SelectSeq(IF gen = "legacy" THEN LinesOf(text) ELSE lines,
              LAMBDA t : t.kind = "time")

\* C21: the table body holds one time line per (depth, distance) pair, in
\* depth-outer, distance-inner order: after the pass for the cell (zi, di)
\* there are (zi - 1) * N_distance + di time lines, the last one holds the
\* value resolved for that cell, and the finished table holds
\* N_depth * N_distance time lines.
C21_OneTimeLinePerCell ==
    (pc \in {"cells", "done"} /\ CellWritten) =>
        /\ Len(TimeLines) = (zi - 1) * Len(DistanceGrid) + di
        /\ TimeLines[Len(TimeLines)].value = cell
        /\ pc = "done" =>
              Len(SelectSeq(LinesOf(text), LAMBDA t : t.kind = "time"))
                  = Len(DepthGrid) * Len(DistanceGrid)

\* C23: the text of a finished table does not end with a newline.
C23_NoTrailingNewline ==
    pc = "done" => (text # <<>> /\ text[Len(text)].kind # "nl")

\* The lines the depth samples and the distance samples of the last table
\* are written on: each line is the sequence of its values.
SampleLines(part) == LinesOf(part)

\* ceil(n / 10)
Ceil10(n) == (n + 9) \div 10

\* The samples are written 10 per line: ceil(N/10) lines, every line but
\* the last with exactly 10 values, the last with the rest.
TenPerLine(samples, part) ==
    LET ls == SampleLines(part)
    IN  /\ Len(ls) = Ceil10(Len(samples))
        /\ \A i \in 1..Len(ls) :
              Len(ls[i].values) =
                  IF i < Len(ls) THEN 10 ELSE Len(samples) - 10 * (Len(ls) - 1)

\* C22: in every table the depth samples and the distance samples are
\* written 10 values per line, on ceil(N/10) lines, with no empty line
\* after a full last line.
C22_TenValuesPerLine ==
    hdr # NoHeader =>
        /\ TenPerLine(hdr.depths, hdr.depth_lines)
        /\ TenPerLine(hdr.distances, hdr.distance_lines)

\* The arrivals of the oracle's answer that carry the label name and are
\* not excluded by a distance-limit window.
Passing(name) ==
    { i \in 1..Len(oracle.arrivals) :
        /\ oracle.arrivals[i].phase = name
        /\ name \in DOMAIN Limits =>
              Limits[name][1] <= distance /\ distance <= Limits[name][2] }

\* The phase is a depth phase that has no combine set.
PlainDepthPhase ==
    /\ IsPrefixed(phase) /\ phase \in Catalog
    /\ phase \notin DOMAIN (IF gen = "main" THEN phase_combinations
                            ELSE phaseCombinations)

\* C24: for a depth phase without a combine set the arrival taken is the
\* first one that passes the distance limits and is labelled, at depth 0,
\* with the phase name less its leading p or s and, at a depth above 0,
\* with the full phase name; the cell is absent when there is none.
C24_StrippedNameAtZeroDepth ==
    (CellWritten /\ gen \in {"main", "legacy"} /\ PlainDepthPhase) =>
        LET name == IF depth = 0 THEN StripFirst(phase) ELSE phase
        IN  IF Passing(name) = {} THEN sel = 0 /\ cell = ABSENT
            ELSE sel = Min(Passing(name))

\* The velocity of the queried wave type in row i of the model.
SampleVelocity(i) ==
    IF qwave \in {"P", "p"} THEN layers[i].vp ELSE layers[i].vs

\* The velocity of sample i, absent when it is the zero sentinel.
EndSample(i) ==
    IF SampleVelocity(i) # 0 THEN Frac(SampleVelocity(i), 1) ELSE None

\* C25: in the piecewise-linear model (samples in increasing depth order) a
\* query at or above the first sample's depth, or at the last sample's
\* depth, returns that sample's velocity, and None when that velocity is 0.
C25_EndSampleVelocity ==
    (gen = "tvel" /\ pc = "queried" /\ StrictlyIncreasing(layers)) =>
        /\ qdepth <= layers[1].depth => vres = EndSample(1)
        /\ qdepth = layers[Len(layers)].depth => vres = EndSample(Len(layers))

\* C29: in a model whose depths do not decrease (a depth may repeat), for a
\* query depth not above max_depth, the interpolation is only done between
\* two samples with d0 < depth <= d1: it never divides by zero, and the
\* result is a velocity.
C29_NoDivisionByZero ==
    ( /\ gen = "tvel" /\ pc = "queried"
      /\ NonDecreasing(model_depths(layers))
      /\ qdepth <= model_max_depth(layers) ) =>
        LET idx == searchsorted(model_depths(layers), qdepth)
        IN  (idx # 0 /\ idx # Len(layers)) =>
                /\ layers[idx].depth < qdepth
                /\ qdepth <= layers[idx + 1].depth
                /\ vres.kind = "v"

\* A model with a discontinuity at 20 km, queried at 20 km: the samples at
\* 0 and 20 km are interpolated.
C29_Witness ==
    /\ gen = "tvel" /\ pc = "queried"
    /\ Len(layers) = 3
    /\ layers[1].depth = 0 /\ layers[2].depth = 20 /\ layers[3].depth = 20
    /\ layers[2].vp # layers[3].vp
    /\ qdepth = 20 /\ qwave = "P"
    /\ vres = Frac(layers[2].vp, 1) /\ layers[2].vp # 0

\* The depths start, start + step, ... that are at most end.
Stepped(start, step, end) ==
    { d \in start..end : (d - start) % step = 0 }

\* C26: in default and custom mode the teleseismic depth grid of an
\* accepted configuration has no duplicate, holds the depths at depth_step
\* below deep_depth_start and the depths at deep_depth_step from
\* deep_depth_start on, and has no sample above max_depth; with the default
\* configuration it is 0, 5, ..., 95, 100, 150, ..., 800.
C26_TeleseismicDepthGrid ==
    (pc = "setup" /\ mode \in {"default", "custom"}) =>
        LET samples == { grid[i] : i \in 1..Len(grid) }
            below == Min({config.deep_depth_start, config.max_depth}) - 1
        IN  /\ \A i, j \in 1..Len(grid) : grid[i] = grid[j] => i = j
            /\ \A d \in samples : d <= config.max_depth
            /\ samples = Stepped(0, config.depth_step, below)
                            \cup Stepped(config.deep_depth_start,
                                         config.deep_depth_step,
                                         config.max_depth)
            /\ config = DefaultConfig =>
                  grid = arange(0, 100, 5) \o arange(100, 801, 50)

\* The first arrival of the oracle's answer labelled with the phase name:
\* its index, 0 when there is none or the oracle raises.
FirstNamed ==
    IF oracle.raises \/ \A i \in 1..Len(oracle.arrivals) :
                            oracle.arrivals[i].phase # phase
    THEN 0
    ELSE Min({ i \in 1..Len(oracle.arrivals) : oracle.arrivals[i].phase = phase })

\* The local resolver's split by depth: below the local model the oracle is
\* asked once and the first arrival with the phase's name gives the time;
\* inside the model the oracle is not asked and the time is the straight
\* line over the model's velocity at the depth.
DepthSplit ==
    IF depth > model_max_depth(layers)
    THEN /\ lastCalls = 1
         /\ sel = FirstNamed
         /\ cell = IF FirstNamed = 0 THEN ABSENT
                   ELSE Secs(oracle.arrivals[FirstNamed].time)
    ELSE LET velocity ==
                 get_velocity(layers, depth, local_characteristics(phase)[4])
         IN  /\ lastCalls = 0 /\ sel = 0
             /\ cell = IF velocity = None THEN ABSENT
                       ELSE HypOver(distance * DegKmLocal, depth, velocity)

\* The distance lies in the phase's distance range.
InLocalRange ==
    /\ local_characteristics(phase)[1] <= distance
    /\ distance <= local_characteristics(phase)[2]

\* C27 (as amended): in the local-model generator, for a distance inside
\* the phase's distance range, a depth above the model's max depth is
\* resolved by the oracle (first arrival labelled with the phase name, -1
\* if none) and a depth not above it by the model alone (straight line over
\* the velocity at the depth, -1 if the model has no velocity).
C27_LocalDepthSplit ==
    (gen = "local" /\ CellWritten /\ InLocalRange) => DepthSplit

\* Pn at 60 km, below a model that ends at 35 km, at 2 degrees: the oracle
\* answers with two Pn arrivals and the first one is taken.
C27_Witness ==
    /\ gen = "local" /\ CellWritten /\ phase = "Pn"
    /\ depth = 60 /\ model_max_depth(layers) = 35 /\ distance = 20
    /\ oracle.arrivals = << [phase |-> "Pn", time |-> 42000],
                            [phase |-> "Pn", time |-> 17000] >>
    /\ lastCalls = 1 /\ sel = 1 /\ cell = Secs(42000)

\* C27 as stated: the split by depth at every distance.
C27_Original ==
    (gen = "local" /\ CellWritten) => DepthSplit

\* C28: a run of generate_travel_time_tables.py with no phase on the
\* command line, in any mode, meets no unknown phase: when the file system
\* does not fail, it ends with one table written per default phase.
C28_DefaultPhasesKnown ==
    ( /\ gen = "main" /\ pc = "exit" /\ fs = FsOk
      /\ phases = default_phases(mode) ) =>
        /\ failed = {}
        /\ written = { phases[i] : i \in 1..Len(phases) }
====
